---- MODULE Spec2Model ----
(***************************************************************************)
(* State-machine model of the farmer advisory core:                        *)
(*   - the multi-agent orchestrator (src/src/agents/orchestrator.py) with  *)
(*     the Soil, Weather and Crop-Planning agents it calls;                *)
(*   - the DynamoDB fixed-window rate limiter                              *)
(*     (src/src/voice/rate_limiter.py).                                    *)
(* Confidences are integers in hundredths (0.85 is 85); pH is in tenths;   *)
(* organic matter is in hundredths.                                        *)
(***************************************************************************)
EXTENDS Integers, Sequences, FiniteSets, Bags, TLC

VARIABLES
    \* ---- one orchestrate_query request ----
    query,          \* the query argument (abstracted to what the code reads of it)
    context,        \* the context argument as passed by the caller
    ext,            \* responses of the external services during this request
    store,          \* Learning Store content relevant to this request
    pc,             \* position inside orchestrate_query
    agent_context,  \* the dict built by _prepare_agent_context, shared by the agents
    response,       \* the response dict under construction / returned
    calls,          \* log of agent calls made by the orchestrator, in order
    faults,         \* internal exceptions that occurred inside agents so far
    previous,       \* what the previous run of the same request returned, or None
    \* ---- the query entry point (lambda_handler) ----
    event,          \* the API Gateway event of the request (abstracted), or None
    http,           \* the HTTP response of lambda_handler, or None while it runs
    \* ---- rate limiter ----
    now,            \* wall clock, int(time.time())
    table,          \* the rate-limit record of one (session, kind) key, or NoItem
    proc,           \* bag of the check_and_increment calls in flight (position, locals)
    log,            \* bag of the outcomes of finished check_and_increment calls
    writes,         \* every record ever put to the table
    \* ---- helpers beside the two request paths ----
    status,         \* what the last get_status call returned, or None
    learn,          \* the last call of a Learning Store helper: what it did, or None
    voice           \* one session's asr and tts rate-limit records and the
                    \* voice-pipeline request in progress

vars == <<query, context, ext, store, pc, agent_context, response, calls, faults,
          previous, event, http, now, table, proc, log, writes, status, learn, voice>>

handlerVars == <<event, http>>
orchVars == <<query, context, ext, store, pc, agent_context, response, calls, faults,
              previous, handlerVars>>
rlVars == <<now, table, proc, log, writes>>
sideVars == <<status, learn, voice>>

\* Python None
NoneVal == [none |-> TRUE]

Min(a, b) == IF a < b THEN a ELSE b
Max(a, b) == IF a > b THEN a ELSE b

\* round(n / d) to the nearest integer, n >= 0, d > 0 (round(x, 2) on hundredths).
RoundDiv(n, d) == (2 * n + d) \div (2 * d)

RECURSIVE SumSeq(_)
SumSeq(s) == IF s = <<>> THEN 0 ELSE Head(s) + SumSeq(Tail(s))

\* round(sum(factors) / len(factors), 2) if factors else 0.5
MeanConfidence(factors) ==
    IF factors = <<>> THEN 50 ELSE RoundDiv(SumSeq(factors), Len(factors))

(***************************************************************************)
(* Intent router                                                           *)
(***************************************************************************)
Intents == {"soil_analysis", "weather_analysis", "crop_planning", "market_info",
            "pest_disease"}

\* INTENT_PATTERNS[...]["weight"], times 10
Weight10(i) ==
    CASE i = "soil_analysis" -> 10
      [] i = "weather_analysis" -> 10
      [] i = "crop_planning" -> 12
      [] i = "market_info" -> 8
      [] i = "pest_disease" -> 9

AllAgents == {"soil", "weather", "crop_planning"}

\* total_score * 10: sum over the detected intents of hits * weight
TotalScore10(q) ==
    q.hits["soil_analysis"] * Weight10("soil_analysis")
    + q.hits["weather_analysis"] * Weight10("weather_analysis")
    + q.hits["crop_planning"] * Weight10("crop_planning")
    + q.hits["market_info"] * Weight10("market_info")
    + q.hits["pest_disease"] * Weight10("pest_disease")

\* Lines 238-268 of _analyze_query_intent: the agents list as the appends build it,
\* before list(set(agents)) turns it into the returned selection.
AgentList(q) ==
    LET detected == {i \in Intents : q.hits[i] > 0}
        Has(l, a) == \E i \in DOMAIN l : l[i] = a
        Add(l, a) == IF Has(l, a) THEN l ELSE Append(l, a)
        a1 == IF "soil_analysis" \in detected THEN <<"soil">> ELSE <<>>
        a2 == IF "weather_analysis" \in detected THEN Append(a1, "weather") ELSE a1
        a3 == IF "crop_planning" \in detected \/ "market_info" \in detected
              THEN Add(Add(Append(a2, "crop_planning"), "soil"), "weather")
              ELSE a2
        a4 == IF q.prev_soil THEN Add(a3, "soil") ELSE a3
        a5 == IF q.prev_weather THEN Add(a4, "weather") ELSE a4
    IN  IF a5 = <<>> THEN <<"soil", "weather", "crop_planning">> ELSE a5

\* The router without its default selection (lines 266-268).
AnalyzeQueryIntent_NoDefault(q) ==
    LET detected == {i \in Intents : q.hits[i] > 0}
    IN  [agents |->
            (IF "soil_analysis" \in detected THEN {"soil"} ELSE {})
            \cup (IF "weather_analysis" \in detected THEN {"weather"} ELSE {})
            \cup (IF "crop_planning" \in detected \/ "market_info" \in detected
                  THEN {"crop_planning", "soil", "weather"} ELSE {})
            \cup (IF q.prev_soil THEN {"soil"} ELSE {})
            \cup (IF q.prev_weather THEN {"weather"} ELSE {}),
         confidence |-> 50,
         detected |-> detected,
         is_default_selection |-> detected = {}]

\* _analyze_query_intent: a query is abstracted to the number of keyword hits per
\* intent, its word count and what the most recent previous query mentions.
AnalyzeQueryIntent(q) ==
    LET detected == {i \in Intents : q.hits[i] > 0}
        explicit ==
            (IF "soil_analysis" \in detected THEN {"soil"} ELSE {})
            \cup (IF "weather_analysis" \in detected THEN {"weather"} ELSE {})
            \cup (IF "crop_planning" \in detected \/ "market_info" \in detected
                  THEN {"crop_planning", "soil", "weather"} ELSE {})
        continued ==
            explicit
            \cup (IF q.prev_soil THEN {"soil"} ELSE {})
            \cup (IF q.prev_weather THEN {"weather"} ELSE {})
        agents == IF continued = {} THEN AllAgents ELSE continued
        raw == IF q.words > 0
               THEN Min(100, RoundDiv(100 * TotalScore10(q), 5 * q.words))
               ELSE 50
        confidence == IF detected # {} THEN Max(60, raw) ELSE raw
    IN  [agents |-> agents,
         confidence |-> confidence,
         detected |-> detected,
         is_default_selection |-> detected = {}]

(***************************************************************************)
(* Shared agent context                                                    *)
(***************************************************************************)
\* _prepare_agent_context: the location fields handed to every agent.
PrepareAgentContext(c) ==
    [pincode |-> c.pincode, district |-> c.district, state |-> c.state,
     irrigation_available |-> c.irrigation_available]

(***************************************************************************)
(* Soil Agent                                                              *)
(***************************************************************************)
\* Regions of REGIONAL_SOIL_PROFILES that the model's contexts can name.
StaticSoilRegions == {"punjab", "kerala"}

\* REGIONAL_SOIL_PROFILES[region] (type, pH * 10, organic matter * 100)
RegionalSoilProfile(region) ==
    CASE region = "punjab" -> [type |-> "loam", ph |-> 78, organic_matter |-> 60]
      [] region = "kerala" -> [type |-> "laterite", ph |-> 55, organic_matter |-> 70]
      [] OTHER -> [type |-> "loam", ph |-> 70, organic_matter |-> 50]

\* get_soil_profile: the learned profile of a region, None when the store is
\* unavailable or holds none.
DbGetSoil(st, region) ==
    IF st.up /\ region \in DOMAIN st.soil THEN st.soil[region] ELSE NoneVal

\* _get_location_context of the Soil Agent: learned district, learned state,
\* static state profile, default.  A learned profile carries primary_soil and
\* ph_range but no "type" and no "ph" key, so location_data keeps neither.
SoilLocationContext(ctx, st) ==
    LET learnedFor(region, level, conf) ==
            [type |-> "unknown", ph |-> 70,
             organic_matter |-> DbGetSoil(st, region).organic_matter,
             fallback_level |-> level, confidence |-> conf]
    IN  IF ctx.district # "" /\ DbGetSoil(st, ctx.district) # NoneVal
        THEN learnedFor(ctx.district, "learned_district", 60)
        ELSE IF ctx.state # "" /\ DbGetSoil(st, ctx.state) # NoneVal
        THEN learnedFor(ctx.state, "learned_state", 60)
        ELSE IF ctx.state \in StaticSoilRegions
        THEN [type |-> RegionalSoilProfile(ctx.state).type,
              ph |-> RegionalSoilProfile(ctx.state).ph,
              organic_matter |-> RegionalSoilProfile(ctx.state).organic_matter,
              fallback_level |-> "state", confidence |-> 60]
        ELSE [type |-> RegionalSoilProfile("default").type,
              ph |-> RegionalSoilProfile("default").ph,
              organic_matter |-> RegionalSoilProfile("default").organic_matter,
              fallback_level |-> "default", confidence |-> 30]

\* type_scores of _calculate_soil_health
SoilTypeScore(t) ==
    CASE t \in {"loam", "alluvial"} -> 3
      [] t \in {"black_cotton", "silt"} -> 2
      [] t \in {"clay", "red", "peat"} -> 1
      [] t = "chalk" -> -1
      [] OTHER -> 0

\* _calculate_soil_health for a query that gives no NPK values:
\* <<health_score, health_confidence>>
CalculateSoilHealth(type, ph, om) ==
    LET typeF == IF type # "unknown" THEN 80 ELSE 40
        phS == IF 60 <= ph /\ ph <= 75 THEN 2
               ELSE IF 55 <= ph /\ ph <= 80 THEN 1
               ELSE IF ph < 50 \/ ph > 85 THEN -2 ELSE 0
        phF == IF 60 <= ph /\ ph <= 75 THEN 90
               ELSE IF 55 <= ph /\ ph <= 80 THEN 75
               ELSE IF ph < 50 \/ ph > 85 THEN 80 ELSE 60
        omS == IF om >= 60 THEN 1 ELSE IF om < 30 THEN -1 ELSE 0
        omFs == IF om >= 60 THEN <<70>> ELSE IF om < 30 THEN <<60>> ELSE <<>>
        score == 5 + SoilTypeScore(type) + phS + omS
    IN  <<Max(1, Min(10, score)), MeanConfidence(<<typeF, phF>> \o omFs)>>

\* The except branch of analyze_soil: the default-filled result with an error.
SoilErrorResult ==
    [error |-> TRUE, soil_type |-> "unknown", health_score |-> 5,
     health_confidence |-> 10, data_freshness |-> "unknown",
     location_context |-> [pincode |-> "none", district |-> "", state |-> "",
                           fallback_level |-> "error"]]

\* analyze_soil.  retrieval_ok is the outcome of its retrieve_documents call, which
\* is made inside the try block and raises when the retrieval service fails.
\* Returns the result and the store after the self-learning step; it catches every
\* exception, so raised is FALSE.
AnalyzeSoil(q, ctx, st, retrieval_ok) ==
    IF ~retrieval_ok
    THEN [raised |-> FALSE, faulted |-> TRUE, value |-> SoilErrorResult, store |-> st]
    ELSE
    LET loc == SoilLocationContext(ctx, st)
        fromQuery == q.soil_type # "none"
        type == IF fromQuery THEN q.soil_type ELSE loc.type
        health == CalculateSoilHealth(type, loc.ph, loc.organic_matter)
        region == IF ctx.district # "" THEN ctx.district ELSE ctx.state
        learns == fromQuery /\ health[2] >= 50 /\ region # "" /\ type # "unknown"
                  /\ st.up
    IN  [raised |-> FALSE, faulted |-> FALSE,
         value |->
            [error |-> FALSE, soil_type |-> type, health_score |-> health[1],
             health_confidence |-> health[2], data_freshness |-> "estimated",
             location_context |->
                [pincode |-> ctx.pincode, district |-> ctx.district,
                 state |-> ctx.state, fallback_level |-> loc.fallback_level]],
         store |->
            IF learns
            THEN [st EXCEPT !.soil =
                    [r \in DOMAIN st.soil \cup {region} |->
                        IF r = region
                        THEN [primary_soil |-> type,
                              organic_matter |-> loc.organic_matter]
                        ELSE st.soil[r]]]
            ELSE st]

\* _get_default_soil_data
DefaultSoilData ==
    [error |-> FALSE, soil_type |-> "loam", health_score |-> 5,
     health_confidence |-> 20, data_freshness |-> "unknown",
     location_context |-> [pincode |-> "none", district |-> "", state |-> "",
                           fallback_level |-> "default"]]

(***************************************************************************)
(* Location resolution and Weather Agent                                   *)
(***************************************************************************)
\* What the India Post directory answers for the pincode that is in no table.
DirectoryState == "kerala"
DirectoryDistrict == "kochi"

\* Keys of STATE_COORDINATES / REGIONAL_WEATHER_PROFILES the model's contexts name.
StaticStates == {"punjab", "kerala"}

\* learn_pincode_location: the LOCATION entry of the store if present; otherwise the
\* India Post directory, whose answer is saved and then geocoded (the coordinates
\* are saved and added to the returned payload, not to the stored LOCATION entry).
LearnPincodeLocation(st, e) ==
    IF st.up /\ st.location
    THEN [found |-> TRUE, has_coords |-> FALSE, store |-> st]
    ELSE IF e.india_post
    THEN [found |-> TRUE, has_coords |-> e.geocoder,
          store |-> IF st.up
                    THEN [st EXCEPT !.location = TRUE,
                                    !.coords = st.coords \/ e.geocoder]
                    ELSE st]
    ELSE [found |-> FALSE, has_coords |-> FALSE, store |-> st]

\* learn_pincode: the COORDS entry of the store if present, otherwise the geocoder.
LearnPincode(st, e) ==
    IF st.up /\ st.coords
    THEN [found |-> TRUE, store |-> st]
    ELSE IF e.geocoder
    THEN [found |-> TRUE, store |-> IF st.up THEN [st EXCEPT !.coords = TRUE] ELSE st]
    ELSE [found |-> FALSE, store |-> st]

\* What a learned location writes into the context dict it was handed.
EnrichedContext(ctx) ==
    [ctx EXCEPT !.state = IF ctx.state = "" THEN DirectoryState ELSE ctx.state,
                !.district = IF ctx.district = "" THEN DirectoryDistrict
                             ELSE ctx.district]

\* _get_coordinates: the coordinate source, the context dict as it leaves it (it
\* writes state and district into the dict it was handed), and the store.
GetCoordinates(ctx, st, e) ==
    LET stateSource == IF ctx.state \in StaticStates THEN "state" ELSE "default_india"
    IN  IF ctx.pincode = "static"
        THEN [source |-> "pincode", ctx |-> ctx, store |-> st]
        ELSE IF ctx.pincode = "none"
        THEN [source |-> stateSource, ctx |-> ctx, store |-> st]
        ELSE IF st.up /\ st.coords
        THEN [source |-> "learned_pincode", ctx |-> ctx, store |-> st]
        ELSE
        LET loc == LearnPincodeLocation(st, e)
            geo == LearnPincode(loc.store, e)
        IN  IF loc.found /\ loc.has_coords
            THEN [source |-> "india_post_pincode", ctx |-> EnrichedContext(ctx),
                  store |-> loc.store]
            ELSE IF loc.found /\ DirectoryState \in StaticStates
            THEN [source |-> "india_post_state", ctx |-> EnrichedContext(ctx),
                  store |-> loc.store]
            ELSE
            LET ctx2 == IF loc.found THEN EnrichedContext(ctx) ELSE ctx
            IN  IF geo.found
                THEN [source |-> "geocoded_pincode", ctx |-> ctx2, store |-> geo.store]
                ELSE [source |-> IF ctx.state \in StaticStates THEN "state"
                                 ELSE "default_india",
                      ctx |-> ctx2, store |-> geo.store]

\* REGIONAL_WEATHER_PROFILES[region]["kharif"]
RegionalWeatherProfile(region) ==
    CASE region = "punjab" ->
            [temp_min |-> 25, temp_max |-> 38, rainfall |-> 650, humidity |-> 70,
             frost_risk |-> "none"]
      [] region = "kerala" ->
            [temp_min |-> 23, temp_max |-> 30, rainfall |-> 2500, humidity |-> 90,
             frost_risk |-> "none"]
      [] OTHER ->
            [temp_min |-> 22, temp_max |-> 35, rainfall |-> 800, humidity |-> 75,
             frost_risk |-> "none"]

\* _get_location_context of the Weather Agent: the region of the weather profile.
WeatherRegion(ctx) == IF ctx.state \in StaticStates THEN ctx.state ELSE "default"

\* A weather fetch that succeeded (values rounded to integers), one whose payload
\* carries a null humidity, and a failed fetch (None).
LiveObservation ==
    [temp_min |-> 24, temp_max |-> 33, rainfall |-> 120, humidity |-> 65,
     malformed |-> FALSE]
MalformedObservation ==
    [temp_min |-> 24, temp_max |-> 33, rainfall |-> 120, humidity |-> 0,
     malformed |-> TRUE]
LiveResponses == {NoneVal, LiveObservation, MalformedObservation}

\* Live temperatures and rainfall with the humidity of the regional profile.
GetWeatherData_Mixed(region, live) ==
    IF live # NoneVal
    THEN [temp_min |-> live.temp_min, temp_max |-> live.temp_max,
          rainfall |-> live.rainfall,
          humidity |-> RegionalWeatherProfile(region).humidity,
          frost_risk |-> IF live.temp_min < 5 THEN "low" ELSE "none",
          region |-> region, data_freshness |-> "live"]
    ELSE [temp_min |-> RegionalWeatherProfile(region).temp_min,
          temp_max |-> RegionalWeatherProfile(region).temp_max,
          rainfall |-> RegionalWeatherProfile(region).rainfall,
          humidity |-> RegionalWeatherProfile(region).humidity,
          frost_risk |-> RegionalWeatherProfile(region).frost_risk,
          region |-> region, data_freshness |-> "historical"]

\* _get_weather_data (kharif): all four values from the live payload, or all four
\* from the regional profile.
GetWeatherData(region, live) ==
    IF live # NoneVal
    THEN [temp_min |-> live.temp_min, temp_max |-> live.temp_max,
          rainfall |-> live.rainfall, humidity |-> live.humidity,
          frost_risk |-> IF live.temp_min < 5 THEN "low" ELSE "none",
          region |-> region, data_freshness |-> "live"]
    ELSE [temp_min |-> RegionalWeatherProfile(region).temp_min,
          temp_max |-> RegionalWeatherProfile(region).temp_max,
          rainfall |-> RegionalWeatherProfile(region).rainfall,
          humidity |-> RegionalWeatherProfile(region).humidity,
          frost_risk |-> RegionalWeatherProfile(region).frost_risk,
          region |-> region, data_freshness |-> "historical"]

\* _calculate_suitability (kharif): <<suitability_score, suitability_confidence>>
CalculateSuitability(w) ==
    LET band == IF 18 <= w.temp_min /\ w.temp_max <= 35 THEN 1
                ELSE IF 15 <= w.temp_min /\ w.temp_max <= 38 THEN 2
                ELSE IF w.temp_min < 10 \/ w.temp_max > 42 THEN 3 ELSE 4
        tempS == CASE band = 1 -> 2 [] band = 2 -> 1 [] band = 3 -> -3 [] OTHER -> 0
        tempF == CASE band = 1 -> 85 [] band = 2 -> 70 [] band = 3 -> 80 [] OTHER -> 60
        rainS == IF 600 <= w.rainfall /\ w.rainfall <= 1200 THEN 1
                 ELSE IF w.rainfall > 2000 THEN -2
                 ELSE IF w.rainfall < 400 THEN -1 ELSE 0
        rainFs == IF 600 <= w.rainfall /\ w.rainfall <= 1200 THEN <<80>>
                  ELSE IF w.rainfall > 2000 THEN <<75>>
                  ELSE IF w.rainfall < 400 THEN <<70>> ELSE <<>>
        humS == IF 50 <= w.humidity /\ w.humidity <= 75 THEN 1
                ELSE IF w.humidity > 85 THEN -1 ELSE 0
        humFs == IF 50 <= w.humidity /\ w.humidity <= 75 THEN <<75>>
                 ELSE IF w.humidity > 85 THEN <<70>> ELSE <<>>
        frostS == CASE w.frost_risk = "high" -> -2
                    [] w.frost_risk = "moderate" -> -1 [] OTHER -> 0
        frostFs == CASE w.frost_risk = "high" -> <<80>>
                     [] w.frost_risk = "moderate" -> <<75>> [] OTHER -> <<>>
        score == 7 + tempS + rainS + humS + frostS
    IN  <<Max(1, Min(10, score)),
          MeanConfidence(<<tempF>> \o rainFs \o humFs \o frostFs)>>

\* The except branch of analyze_weather.
WeatherErrorResult ==
    [error |-> TRUE, season |-> "unknown", temp_min |-> 20, temp_max |-> 30,
     rainfall |-> 100, humidity |-> 60, suitability_score |-> 5,
     suitability_confidence |-> 10, data_freshness |-> "unknown",
     location_context |-> [pincode |-> "none", district |-> "", state |-> "",
                           fallback_level |-> "error"]]

\* analyze_weather without its except branch: the exception of a malformed payload
\* reaches the caller.
AnalyzeWeather_Propagates(q, ctx, st, e) ==
    LET coords == GetCoordinates(ctx, st, e)
    IN  [raised |-> e.live # NoneVal /\ e.live.malformed,
         faulted |-> e.live # NoneVal /\ e.live.malformed,
         value |-> WeatherErrorResult, ctx |-> coords.ctx, store |-> coords.store]

\* analyze_weather.  The region is read before _get_coordinates runs; the result's
\* location_context is read after it.  A payload with a null humidity raises in
\* _calculate_suitability, after the context and the store were already written.
AnalyzeWeather(q, ctx, st, e) ==
    LET region == WeatherRegion(ctx)
        coords == GetCoordinates(ctx, st, e)
        w == GetWeatherData(region, e.live)
        suit == CalculateSuitability(w)
        observes == e.live # NoneVal /\ coords.ctx.state # "" /\ coords.store.up
    IN  IF e.live # NoneVal /\ e.live.malformed
        THEN [raised |-> FALSE, faulted |-> TRUE, value |-> WeatherErrorResult,
              ctx |-> coords.ctx, store |-> coords.store]
        ELSE [raised |-> FALSE, faulted |-> FALSE,
              value |->
                [error |-> FALSE, season |-> "kharif", temp_min |-> w.temp_min,
                 temp_max |-> w.temp_max, rainfall |-> w.rainfall,
                 humidity |-> w.humidity, suitability_score |-> suit[1],
                 suitability_confidence |-> suit[2],
                 data_freshness |-> w.data_freshness,
                 location_context |->
                    [pincode |-> coords.ctx.pincode,
                     district |-> coords.ctx.district,
                     state |-> coords.ctx.state,
                     fallback_level |-> IF region = "default" THEN "default"
                                        ELSE "state"]],
              ctx |-> coords.ctx,
              store |-> IF observes
                        THEN [coords.store EXCEPT
                                !.weather_obs = @ \cup {coords.ctx.state}]
                        ELSE coords.store]

\* _get_default_weather_data
DefaultWeatherData ==
    [error |-> FALSE, season |-> "kharif", temp_min |-> 22, temp_max |-> 35,
     rainfall |-> 800, humidity |-> 70, suitability_score |-> 5,
     suitability_confidence |-> 20, data_freshness |-> "unknown",
     location_context |-> [pincode |-> "none", district |-> "", state |-> "",
                           fallback_level |-> "default"]]

(***************************************************************************)
(* Crop-Planning Agent                                                     *)
(***************************************************************************)
\* The except branch of plan_crops.
CropErrorResult == [error |-> TRUE, overall_confidence |-> 10]

\* plan_crops: _aggregate_confidence over the soil and weather confidences it was
\* given and the mean confidence of its recommendations (crop_conf, an output of
\* _calculate_confidence).  Its retrieve_documents call is inside the try block.
PlanCrops(soil, weather, retrieval_ok, crop_conf) ==
    IF ~retrieval_ok
    THEN [raised |-> FALSE, faulted |-> TRUE, value |-> CropErrorResult]
    ELSE [raised |-> FALSE, faulted |-> FALSE,
          value |->
            [error |-> FALSE,
             overall_confidence |->
                RoundDiv(30 * soil.health_confidence
                         + 30 * weather.suitability_confidence
                         + 40 * crop_conf, 100)]]

\* CROP_DATABASE in the order of its keys.
Crops == <<"rice", "wheat", "maize", "cotton", "soybean", "groundnut", "chickpea",
           "mustard", "sugarcane", "potato">>

\* CROP_DATABASE[crop]["suitable_soil"]
SuitableSoil(crop) ==
    CASE crop = "rice" -> {"clay", "loam", "alluvial"}
      [] crop = "wheat" -> {"loam", "clay", "alluvial"}
      [] crop = "maize" -> {"loam", "sandy", "alluvial"}
      [] crop = "cotton" -> {"black_cotton", "loam"}
      [] crop = "soybean" -> {"loam", "black_cotton", "alluvial"}
      [] crop = "groundnut" -> {"sandy", "loam", "red"}
      [] crop = "chickpea" -> {"loam", "black_cotton", "clay"}
      [] crop = "mustard" -> {"loam", "sandy", "alluvial"}
      [] crop = "sugarcane" -> {"loam", "clay", "alluvial", "black_cotton"}
      [] crop = "potato" -> {"loam", "sandy", "alluvial"}
      [] OTHER -> {}

\* CROP_DATABASE[crop]["water_requirement"]
WaterRequirement(crop) ==
    CASE crop = "rice" -> "high"
      [] crop = "sugarcane" -> "very_high"
      [] crop \in {"groundnut", "chickpea", "mustard"} -> "low"
      [] OTHER -> "moderate"

\* CROP_DATABASE[crop]["msp_2024"] is set for every crop but potato.
HasMsp(crop) == crop # "potato"

\* _calculate_confidence in hundredths.  The products are divided down in stages to
\* stay within 32-bit integers.
CropConfidence(crop, soil, weather) ==
    LET soilF == (40 + 6 * soil.health_score) * (100 + soil.health_confidence)
        weatherF == (40 + 6 * weather.suitability_score)
                    * (100 + weather.suitability_confidence)
        both == (soilF * weatherF) \div 10000
        match == IF soil.soil_type \in SuitableSoil(crop) THEN 115 ELSE 85
        msp == IF HasMsp(crop) THEN 105 ELSE 100
    IN  Min(100, RoundDiv(((both * 70 * match) \div 1000) * msp, 400000))

Take(s, n) == SubSeq(s, 1, Min(n, Len(s)))

\* list.sort(key=confidence, reverse=True): a stable insertion into descending order.
RECURSIVE SortByConfidence(_, _, _)
SortByConfidence(s, soil, weather) ==
    IF s = <<>> THEN <<>>
    ELSE LET rest == SortByConfidence(Tail(s), soil, weather)
             c == CropConfidence(Head(s), soil, weather)
             NotAbove(x) == CropConfidence(x, soil, weather) <= c
             Above(x) == CropConfidence(x, soil, weather) > c
         IN  SelectSeq(rest, Above) \o <<Head(s)>> \o SelectSeq(rest, NotAbove)

\* A recommender that puts every crop of the Weather Agent's list first, whatever
\* its soil and water requirement.
GenerateCropRecommendations_WeatherFirst(soil, weather, ctx) ==
    LET Listed(c) == c \in weather.optimal_crops
    IN  Take(SelectSeq(Crops, Listed), 4)

\* _generate_crop_recommendations: the names of the recommended crops, in order.
\* weather.optimal_crops is the set of crop names of the Weather Agent's list.
GenerateCropRecommendations(soil, weather, ctx) ==
    LET Suitable(c) ==
            /\ soil.soil_type \in SuitableSoil(c) \/ soil.soil_type = "unknown"
            /\ ~(WaterRequirement(c) \in {"very_high", "high"}
                 /\ ~ctx.irrigation_available)
        Listed(c) == c \in weather.optimal_crops
        Unlisted(c) == c \notin weather.optimal_crops
        suitable == SelectSeq(Crops, Suitable)
        crossed == IF weather.optimal_crops # {}
                   THEN SelectSeq(suitable, Listed)
                        \o Take(SelectSeq(suitable, Unlisted), 3)
                   ELSE suitable
    IN  Take(SortByConfidence(Take(crossed, 5), soil, weather), 4)

(***************************************************************************)
(* Orchestrator                                                            *)
(***************************************************************************)
\* The weighted mean without the clamp to [0.1, 1.0].
CalculateOverallConfidence_NoClamp(r) ==
    LET parts ==
            (IF r.soil_data # NoneVal
             THEN <<[c |-> r.soil_data.health_confidence, w |-> 25]>> ELSE <<>>)
            \o (IF r.weather_data # NoneVal
                THEN <<[c |-> r.weather_data.suitability_confidence, w |-> 25]>>
                ELSE <<>>)
            \o (IF r.crop_plan # NoneVal
                THEN <<[c |-> r.crop_plan.overall_confidence, w |-> 35]>> ELSE <<>>)
            \o <<[c |-> r.intent_confidence, w |-> 15]>>
        weighted_sum == SumSeq([i \in DOMAIN parts |-> parts[i].c * parts[i].w])
        total_weight == SumSeq([i \in DOMAIN parts |-> parts[i].w])
    IN  RoundDiv(weighted_sum, total_weight)

\* _calculate_overall_confidence: weights 0.25 / 0.25 / 0.35 / 0.15 over the parts
\* present, minus 0.1 per agent error, clamped to [0.1, 1.0] and rounded.
CalculateOverallConfidence(r) ==
    LET parts ==
            (IF r.soil_data # NoneVal
             THEN <<[c |-> r.soil_data.health_confidence, w |-> 25]>> ELSE <<>>)
            \o (IF r.weather_data # NoneVal
                THEN <<[c |-> r.weather_data.suitability_confidence, w |-> 25]>>
                ELSE <<>>)
            \o (IF r.crop_plan # NoneVal
                THEN <<[c |-> r.crop_plan.overall_confidence, w |-> 35]>> ELSE <<>>)
            \o <<[c |-> r.intent_confidence, w |-> 15]>>
        weighted_sum == SumSeq([i \in DOMAIN parts |-> parts[i].c * parts[i].w])
        total_weight == SumSeq([i \in DOMAIN parts |-> parts[i].w])
        error_penalty == 10 * Len(r.agent_errors)
        num == weighted_sum - error_penalty * total_weight
    IN  IF num <= 10 * total_weight THEN 10
        ELSE IF num >= 100 * total_weight THEN 100
        ELSE RoundDiv(num, total_weight)

\* The summary computed from the Soil and Weather entries only.
SummarizeDataFreshness_AgentsOnly(r) ==
    LET fs == (IF r.soil_data # NoneVal THEN {r.soil_data.data_freshness} ELSE {})
              \cup (IF r.weather_data # NoneVal
                    THEN {r.weather_data.data_freshness} ELSE {})
    IN  IF fs \subseteq {"user_provided", "live"} THEN "high_accuracy"
        ELSE IF "historical" \in fs THEN "estimated_from_historical"
        ELSE "mixed_sources"

\* _summarize_data_freshness: the "overall" entry.
SummarizeDataFreshness(r) ==
    LET fs == (IF r.soil_data # NoneVal THEN {r.soil_data.data_freshness} ELSE {})
              \cup (IF r.weather_data # NoneVal
                    THEN {r.weather_data.data_freshness} ELSE {})
              \cup (IF r.crop_plan # NoneVal THEN {"2024_msp_data"} ELSE {})
    IN  IF fs \subseteq {"user_provided", "live"} THEN "high_accuracy"
        ELSE IF "historical" \in fs THEN "estimated_from_historical"
        ELSE "mixed_sources"

\* A prompt generator that writes the section of every result that is not None,
\* error results included.
GenerateLlmPrompt_AllSections(r, c) ==
    <<"User Query", "Response Confidence">>
    \o (IF c.state # "" \/ c.district # "" THEN <<"Location">> ELSE <<>>)
    \o <<"Analysis Results">>
    \o (IF r.soil_data # NoneVal THEN <<"SOIL ANALYSIS">> ELSE <<>>)
    \o (IF r.weather_data # NoneVal THEN <<"WEATHER ANALYSIS">> ELSE <<>>)
    \o (IF r.crop_plan # NoneVal THEN <<"CROP RECOMMENDATIONS">> ELSE <<>>)
    \o <<"Data Confidence", "Data Sources">>
    \o (IF r.agent_errors # <<>> THEN <<"Note">> ELSE <<>>)
    \o <<"Instructions for Response">>

\* _generate_llm_prompt: the prompt as the sequence of its sections.
GenerateLlmPrompt(r, c) ==
    <<"User Query", "Response Confidence">>
    \o (IF c.state # "" \/ c.district # "" THEN <<"Location">> ELSE <<>>)
    \o <<"Analysis Results">>
    \o (IF r.soil_data # NoneVal /\ ~r.soil_data.error
        THEN <<"SOIL ANALYSIS">> ELSE <<>>)
    \o (IF r.weather_data # NoneVal /\ ~r.weather_data.error
        THEN <<"WEATHER ANALYSIS">> ELSE <<>>)
    \o (IF r.crop_plan # NoneVal /\ ~r.crop_plan.error
        THEN <<"CROP RECOMMENDATIONS">> ELSE <<>>)
    \o <<"Data Confidence", "Data Sources">>
    \o (IF r.agent_errors # <<>> THEN <<"Note">> ELSE <<>>)
    \o <<"Instructions for Response">>

\* The response dict as initialised at lines 90-102.
InitialResponse(intent) ==
    [error |-> FALSE,
     agents_invoked |-> intent.agents,
     intent_confidence |-> intent.confidence,
     is_default_selection |-> intent.is_default_selection,
     soil_data |-> NoneVal, weather_data |-> NoneVal, crop_plan |-> NoneVal,
     agent_errors |-> <<>>,
     overall_confidence |-> 0,
     data_freshness_overall |-> "",
     llm_prompt_input |-> <<>>]

\* The dict returned by the catch-all except branch of orchestrate_query.
OrchestratorFailure ==
    [error |-> TRUE,
     agents_invoked |-> {},
     intent_confidence |-> 0,
     is_default_selection |-> FALSE,
     soil_data |-> NoneVal, weather_data |-> NoneVal, crop_plan |-> NoneVal,
     agent_errors |-> <<"orchestrator">>,
     overall_confidence |-> 0,
     data_freshness_overall |-> "",
     llm_prompt_input |-> <<"Error processing query">>]

\* Kinds of exception the steps outside the agents' own try blocks can raise.
FailureKinds == {"AttributeError", "TypeError"}

\* A handler that catches one kind of exception only.
CatchAll_TypeErrorOnly(kind) ==
    [raised |-> kind # "TypeError", value |-> OrchestratorFailure]

\* The handler `except Exception` of orchestrate_query (lines 156-165): every
\* exception raised inside the try block is caught and turned into the failure
\* dict; none propagates to the caller.
CatchAll(kind) == [raised |-> FALSE, value |-> OrchestratorFailure]

\* Crop-Planning always planned on the surrogates.
CropPlanningInputs_Surrogates(r) ==
    [soil |-> DefaultSoilData, weather |-> DefaultWeatherData]

\* Lines 126-127: what plan_crops is given, the real results or the surrogates.
CropPlanningInputs(r) ==
    [soil |-> IF r.soil_data # NoneVal THEN r.soil_data ELSE DefaultSoilData,
     weather |-> IF r.weather_data # NoneVal THEN r.weather_data
                 ELSE DefaultWeatherData]

CallRecord(fn, soil, weather) == [fn |-> fn, soil |-> soil, weather |-> weather]

\* Lines 77-105: intent analysis, the response skeleton, the shared agent context.
\* _analyze_query_intent raises on a query that is no string (query.lower());
\* _prepare_agent_context raises when context["user_profile"] is no dict (a JSON
\* null from the request body).  Both land in the catch-all except branch.
StartBody(next) ==
    /\ pc = "start"
    /\ IF ~query.valid \/ ~context.profile_ok
       THEN LET caught == CatchAll("AttributeError")
            IN  /\ response' = IF caught.raised THEN response ELSE caught.value
                /\ pc' = IF caught.raised THEN "raised" ELSE "done"
                /\ UNCHANGED agent_context
       ELSE /\ response' = InitialResponse(AnalyzeQueryIntent(query))
            /\ agent_context' = PrepareAgentContext(context)
            /\ pc' = next
    /\ UNCHANGED <<query, context, ext, store, calls, faults>>

OrchStart == StartBody("soil")

\* Lines 108-114: the Soil Agent call and its try/except.
SoilCall(next) ==
    IF "soil" \in response.agents_invoked
    THEN LET r == AnalyzeSoil(query, agent_context, store, ext.retrieval_soil)
         IN  /\ response' =
                    IF r.raised
                    THEN [response EXCEPT !.agent_errors = Append(@, "soil")]
                    ELSE [response EXCEPT !.soil_data = r.value]
             /\ store' = r.store
             /\ calls' = Append(calls, CallRecord("analyze_soil", NoneVal, NoneVal))
             /\ faults' = IF r.faulted THEN faults \cup {"soil"} ELSE faults
             /\ pc' = next
             /\ UNCHANGED <<query, context, ext, agent_context>>
    ELSE /\ pc' = next
         /\ UNCHANGED <<query, context, ext, store, agent_context, response, calls,
                        faults>>

\* Lines 116-122: the Weather Agent call and its try/except.  The agent is handed
\* the shared agent_context dict itself, so what it writes there stays.
WeatherCall(next) ==
    IF "weather" \in response.agents_invoked
    THEN LET r == AnalyzeWeather(query, agent_context, store, ext)
         IN  /\ response' =
                    IF r.raised
                    THEN [response EXCEPT !.agent_errors = Append(@, "weather")]
                    ELSE [response EXCEPT !.weather_data = r.value]
             /\ agent_context' = r.ctx
             /\ store' = r.store
             /\ calls' = Append(calls, CallRecord("analyze_weather", NoneVal, NoneVal))
             /\ faults' = IF r.faulted THEN faults \cup {"weather"} ELSE faults
             /\ pc' = next
             /\ UNCHANGED <<query, context, ext>>
    ELSE /\ pc' = next
         /\ UNCHANGED <<query, context, ext, store, agent_context, response, calls,
                        faults>>

RunSoil == pc = "soil" /\ SoilCall("weather")

RunWeather == pc = "weather" /\ WeatherCall("crop")

\* Lines 125-139: Crop-Planning with the real results or the default surrogates.
RunCrop ==
    /\ pc = "crop"
    /\ IF "crop_planning" \in response.agents_invoked
       THEN LET soil_data == CropPlanningInputs(response).soil
                weather_data == CropPlanningInputs(response).weather
                r == PlanCrops(soil_data, weather_data, ext.retrieval_crop,
                               ext.crop_conf)
            IN  /\ response' =
                        IF r.raised
                        THEN [response EXCEPT
                                !.agent_errors = Append(@, "crop_planning")]
                        ELSE [response EXCEPT !.crop_plan = r.value]
                /\ calls' = Append(calls, CallRecord("plan_crops", soil_data,
                                                     weather_data))
                /\ faults' = IF r.faulted THEN faults \cup {"crop_planning"}
                             ELSE faults
       ELSE UNCHANGED <<response, calls, faults>>
    /\ pc' = "aggregate"
    /\ UNCHANGED <<query, context, ext, store, agent_context>>

\* Lines 141-154: aggregation and the prompt.
Aggregate ==
    /\ pc = "aggregate"
    /\ response' =
            [response EXCEPT
                !.overall_confidence = CalculateOverallConfidence(response),
                !.data_freshness_overall = SummarizeDataFreshness(response),
                !.llm_prompt_input =
                    GenerateLlmPrompt(
                        [response EXCEPT !.overall_confidence =
                            CalculateOverallConfidence(response)], context)]
    /\ pc' = "done"
    /\ UNCHANGED <<query, context, ext, store, agent_context, calls, faults>>

\* Lines 156-165: an exception raised by the aggregation steps (lines 142-151) is
\* caught by the catch-all branch, which returns the failure dict.
AggregateFails ==
    /\ pc = "aggregate"
    /\ \E kind \in FailureKinds :
        LET caught == CatchAll(kind)
        IN  /\ response' = IF caught.raised THEN response ELSE caught.value
            /\ pc' = IF caught.raised THEN "raised" ELSE "done"
    /\ UNCHANGED <<query, context, ext, store, agent_context, calls, faults>>

(***************************************************************************)
(* Requests                                                                *)
(***************************************************************************)
\* Words of a non-empty query.
QueryWords == 4

Hits(S) == [i \in Intents |-> IF i \in S THEN 1 ELSE 0]

MkQuery(valid, S, words, ps, pw, soil_type) ==
    [valid |-> valid, hits |-> Hits(S), words |-> words, prev_soil |-> ps,
     prev_weather |-> pw, soil_type |-> soil_type]

\* The queries of the orchestrator runs: one per way the router selects agents, a
\* query naming a soil type, the empty query, and a query that is no string.
OrchQueries ==
    {MkQuery(TRUE, {"soil_analysis"}, QueryWords, FALSE, FALSE, "none"),
     MkQuery(TRUE, {"weather_analysis"}, QueryWords, FALSE, FALSE, "none"),
     MkQuery(TRUE, {"crop_planning"}, QueryWords, FALSE, FALSE, "none"),
     MkQuery(TRUE, {"soil_analysis", "crop_planning"}, QueryWords, FALSE, FALSE, "clay"),
     MkQuery(TRUE, {"pest_disease"}, QueryWords, FALSE, FALSE, "none"),
     MkQuery(TRUE, {}, QueryWords, TRUE, FALSE, "none"),
     MkQuery(TRUE, {}, QueryWords, FALSE, FALSE, "none"),
     MkQuery(TRUE, {}, 0, FALSE, FALSE, "none"),
     MkQuery(FALSE, {}, 0, FALSE, FALSE, "none")}

Contexts ==
    [pincode : {"none", "static", "new"}, state : {"", "punjab"},
     district : {"", "ludhiana"}, profile_ok : BOOLEAN,
     irrigation_available : {TRUE}]

\* Mean recommendation confidences plan_crops may arrive at.
CropConfLevels == {20, 80}

Externals ==
    [india_post : BOOLEAN, geocoder : BOOLEAN, live : LiveResponses,
     retrieval_soil : BOOLEAN, retrieval_crop : BOOLEAN, crop_conf : CropConfLevels]

Stores ==
    [up : BOOLEAN, coords : BOOLEAN, location : BOOLEAN, soil : {<<>>},
     weather_obs : {{}}]

\* An input the request never consults is fixed to one value, so that two initial
\* states differ only in something the request can observe.
Consulted(q, c, e, s) ==
    LET runs == q.valid /\ c.profile_ok
        agents == IF runs THEN AnalyzeQueryIntent(q).agents ELSE {}
        resolves == "weather" \in agents /\ c.pincode = "new"
    IN  /\ (~q.valid => c.profile_ok)
        /\ ("soil" \notin agents => e.retrieval_soil)
        /\ ("weather" \notin agents => e.live = NoneVal)
        /\ ("crop_planning" \notin agents =>
                e.retrieval_crop /\ e.crop_conf = 80)
        /\ (~resolves => e.india_post /\ e.geocoder /\ ~s.coords /\ ~s.location)
        /\ (~runs => s.up /\ c.pincode = "none" /\ c.state = "" /\ c.district = "")
        /\ (~s.up => ~s.coords /\ ~s.location)

InitRateLimiterIdle ==
    /\ now = 0
    /\ table = NoneVal
    /\ proc = EmptyBag
    /\ log = EmptyBag
    /\ writes = {}
    /\ status = NoneVal
    /\ learn = NoneVal
    /\ voice = [asr |-> NoneVal, tts |-> NoneVal, pos |-> "idle", before |-> NoneVal,
                http |-> NoneVal]

Init ==
    /\ query \in OrchQueries
    /\ context \in Contexts
    /\ ext \in Externals
    /\ store \in Stores
    /\ Consulted(query, context, ext, store)
    /\ pc = "start"
    /\ agent_context = NoneVal
    /\ response = NoneVal
    /\ calls = <<>>
    /\ faults = {}
    /\ previous = NoneVal
    /\ event = NoneVal
    /\ http = NoneVal
    /\ InitRateLimiterIdle

\* orchestrate_query as the code runs it: Soil, then Weather, then Crop-Planning.
Next ==
    \/ OrchStart /\ UNCHANGED <<previous, handlerVars, rlVars, sideVars>>
    \/ RunSoil /\ UNCHANGED <<previous, handlerVars, rlVars, sideVars>>
    \/ RunWeather /\ UNCHANGED <<previous, handlerVars, rlVars, sideVars>>
    \/ RunCrop /\ UNCHANGED <<previous, handlerVars, rlVars, sideVars>>
    \/ Aggregate /\ UNCHANGED <<previous, handlerVars, rlVars, sideVars>>
    \/ AggregateFails /\ UNCHANGED <<previous, handlerVars, rlVars, sideVars>>

Spec == Init /\ [][Next]_vars

\* The caller sends the same request again: same query, same context, same
\* external responses, against the Learning Store as the first run left it.
Repeat ==
    /\ pc = "done"
    /\ previous = NoneVal
    /\ previous' = response
    /\ pc' = "start"
    /\ agent_context' = NoneVal
    /\ response' = NoneVal
    /\ calls' = <<>>
    /\ faults' = {}
    /\ UNCHANGED <<query, context, ext, store>>

NextTwice ==
    \/ OrchStart /\ UNCHANGED <<previous, handlerVars, rlVars, sideVars>>
    \/ RunSoil /\ UNCHANGED <<previous, handlerVars, rlVars, sideVars>>
    \/ RunWeather /\ UNCHANGED <<previous, handlerVars, rlVars, sideVars>>
    \/ RunCrop /\ UNCHANGED <<previous, handlerVars, rlVars, sideVars>>
    \/ Aggregate /\ UNCHANGED <<previous, handlerVars, rlVars, sideVars>>
    \/ AggregateFails /\ UNCHANGED <<previous, handlerVars, rlVars, sideVars>>
    \/ Repeat /\ UNCHANGED <<handlerVars, rlVars, sideVars>>

SpecTwice == Init /\ [][NextTwice]_vars

\* The caller, having named a soil type in the first query, asks again for the
\* same location with a query that names none, against the Learning Store as the
\* first run left it.
AskAgain ==
    /\ pc = "done"
    /\ previous = NoneVal
    /\ query.soil_type # "none"
    /\ query' = [query EXCEPT !.soil_type = "none"]
    /\ previous' = response
    /\ pc' = "start"
    /\ agent_context' = NoneVal
    /\ response' = NoneVal
    /\ calls' = <<>>
    /\ faults' = {}
    /\ UNCHANGED <<context, ext, store>>

NextLearn ==
    \/ OrchStart /\ UNCHANGED <<previous, handlerVars, rlVars, sideVars>>
    \/ RunSoil /\ UNCHANGED <<previous, handlerVars, rlVars, sideVars>>
    \/ RunWeather /\ UNCHANGED <<previous, handlerVars, rlVars, sideVars>>
    \/ RunCrop /\ UNCHANGED <<previous, handlerVars, rlVars, sideVars>>
    \/ Aggregate /\ UNCHANGED <<previous, handlerVars, rlVars, sideVars>>
    \/ AggregateFails /\ UNCHANGED <<previous, handlerVars, rlVars, sideVars>>
    \/ AskAgain /\ UNCHANGED <<handlerVars, rlVars, sideVars>>

SpecLearn == Init /\ [][NextLearn]_vars

\* Weather requests for the pincode that is in no static table, over every
\* availability of the directory, the geocoder and the store.
InitResolve ==
    /\ query = MkQuery(TRUE, {"weather_analysis"}, QueryWords, FALSE, FALSE, "none")
    /\ context \in {c \in Contexts : c.pincode = "new" /\ c.profile_ok}
    /\ ext \in {e \in Externals : e.retrieval_soil /\ e.retrieval_crop
                                  /\ e.crop_conf = 80}
    /\ store \in Stores
    /\ pc = "start"
    /\ agent_context = NoneVal
    /\ response = NoneVal
    /\ calls = <<>>
    /\ faults = {}
    /\ previous = NoneVal
    /\ event = NoneVal
    /\ http = NoneVal
    /\ InitRateLimiterIdle

\* The caller sends the request again after the geocoder, which was unavailable
\* during the first run, has become available.
RepeatRecovered ==
    /\ pc = "done"
    /\ previous = NoneVal
    /\ ~ext.geocoder
    /\ ext' = [ext EXCEPT !.geocoder = TRUE]
    /\ previous' = response
    /\ pc' = "start"
    /\ agent_context' = NoneVal
    /\ response' = NoneVal
    /\ calls' = <<>>
    /\ faults' = {}
    /\ UNCHANGED <<query, context, store>>

NextResolve ==
    \/ OrchStart /\ UNCHANGED <<previous, handlerVars, rlVars, sideVars>>
    \/ RunSoil /\ UNCHANGED <<previous, handlerVars, rlVars, sideVars>>
    \/ RunWeather /\ UNCHANGED <<previous, handlerVars, rlVars, sideVars>>
    \/ RunCrop /\ UNCHANGED <<previous, handlerVars, rlVars, sideVars>>
    \/ Aggregate /\ UNCHANGED <<previous, handlerVars, rlVars, sideVars>>
    \/ AggregateFails /\ UNCHANGED <<previous, handlerVars, rlVars, sideVars>>
    \/ RepeatRecovered /\ UNCHANGED <<handlerVars, rlVars, sideVars>>

\* A request that has started runs to its return: orchestrate_query is one
\* synchronous call without a loop or a wait.
SpecResolve == InitResolve /\ [][NextResolve]_vars /\ WF_vars(NextResolve)

\* Learning Stores that already hold soil profiles learned from earlier queries
\* (learn_soil_from_query), for the district, the state, both or neither.
LearnedRegions == {"ludhiana", "punjab"}

LearnedStores ==
    {[up |-> TRUE, coords |-> c, location |-> l,
      soil |-> [r \in R |-> [primary_soil |-> "clay", organic_matter |-> 60]],
      weather_obs |-> {}] :
        c \in BOOLEAN, l \in BOOLEAN, R \in SUBSET LearnedRegions}

InitLearned ==
    /\ query \in OrchQueries
    /\ context \in Contexts
    /\ ext \in Externals
    /\ store \in LearnedStores
    /\ Consulted(query, context, ext, store)
    /\ pc = "start"
    /\ agent_context = NoneVal
    /\ response = NoneVal
    /\ calls = <<>>
    /\ faults = {}
    /\ previous = NoneVal
    /\ event = NoneVal
    /\ http = NoneVal
    /\ InitRateLimiterIdle

\* The contexts left when one more specific location signal is removed: the
\* pincode, or the district while the state is kept.
LessSpecific(c) ==
    (IF c.pincode # "none" THEN {[c EXCEPT !.pincode = "none"]} ELSE {})
    \cup (IF c.district # "" /\ c.state # ""
          THEN {[c EXCEPT !.district = ""]} ELSE {})

\* The caller sends the same query again with a less specific context.  The first
\* run of a query that names no soil type leaves the learned soil profiles as it
\* found them, so both runs read the same profiles.
RemoveSignal ==
    /\ pc = "done"
    /\ previous = NoneVal
    /\ query.soil_type = "none"
    /\ context' \in LessSpecific(context)
    /\ previous' = response
    /\ pc' = "start"
    /\ agent_context' = NoneVal
    /\ response' = NoneVal
    /\ calls' = <<>>
    /\ faults' = {}
    /\ UNCHANGED <<query, ext, store>>

NextFallback ==
    \/ OrchStart /\ UNCHANGED <<previous, handlerVars, rlVars, sideVars>>
    \/ RunSoil /\ UNCHANGED <<previous, handlerVars, rlVars, sideVars>>
    \/ RunWeather /\ UNCHANGED <<previous, handlerVars, rlVars, sideVars>>
    \/ RunCrop /\ UNCHANGED <<previous, handlerVars, rlVars, sideVars>>
    \/ Aggregate /\ UNCHANGED <<previous, handlerVars, rlVars, sideVars>>
    \/ AggregateFails /\ UNCHANGED <<previous, handlerVars, rlVars, sideVars>>
    \/ RemoveSignal /\ UNCHANGED <<handlerVars, rlVars, sideVars>>

SpecFallback == InitLearned /\ [][NextFallback]_vars

\* The Crop-Planning Agent alone, over soil results of every kind of soil type,
\* with and without irrigation, and over Weather results whose optimal_crops list
\* is empty, names crops of the Crop DB or names none of them.
CropSoilTypes == {"clay", "sandy", "loam", "black_cotton", "red", "laterite",
                  "alluvial", "unknown"}

OptimalCropLists ==
    {{}, {"rice", "sugarcane"}, {"wheat", "mustard", "potato"}, {"millet"},
     {"rice", "wheat", "maize", "cotton", "soybean", "groundnut", "chickpea",
      "mustard", "sugarcane", "potato"}}

CropSoilResults ==
    {[error |-> FALSE, soil_type |-> t, health_score |-> h,
      health_confidence |-> 75, data_freshness |-> "estimated"] :
        t \in CropSoilTypes, h \in {3, 9}}

CropWeatherResults ==
    {[error |-> FALSE, season |-> "kharif", suitability_score |-> 8,
      suitability_confidence |-> 75, data_freshness |-> "historical",
      optimal_crops |-> o] : o \in OptimalCropLists}

InitCrops ==
    /\ query = MkQuery(TRUE, {"crop_planning"}, QueryWords, FALSE, FALSE, "none")
    /\ context = [pincode |-> "none", state |-> "", district |-> "",
                  profile_ok |-> TRUE, irrigation_available |-> TRUE]
    /\ ext = [india_post |-> TRUE, geocoder |-> TRUE, live |-> NoneVal,
              retrieval_soil |-> TRUE, retrieval_crop |-> TRUE, crop_conf |-> 80]
    /\ store = [up |-> TRUE, coords |-> FALSE, location |-> FALSE, soil |-> <<>>,
                weather_obs |-> {}]
    /\ pc = "crop"
    /\ \E irrigation \in BOOLEAN :
        agent_context = [pincode |-> "none", district |-> "", state |-> "",
                         irrigation_available |-> irrigation]
    /\ \E soil \in CropSoilResults, weather \in CropWeatherResults :
        response = [InitialResponse(AnalyzeQueryIntent(query)) EXCEPT
                        !.soil_data = soil, !.weather_data = weather]
    /\ calls = <<>>
    /\ faults = {}
    /\ previous = NoneVal
    /\ event = NoneVal
    /\ http = NoneVal
    /\ InitRateLimiterIdle

\* plan_crops, lines 208-209: the recommendations for the results it was given.
RecommendCrops ==
    /\ pc = "crop"
    /\ response' =
            [response EXCEPT !.crop_plan =
                [error |-> FALSE,
                 recommended_crops |->
                    GenerateCropRecommendations(response.soil_data,
                                                response.weather_data, agent_context)]]
    /\ pc' = "aggregate"
    /\ UNCHANGED <<query, context, ext, store, agent_context, calls, faults>>

NextCrops == RecommendCrops /\ UNCHANGED <<previous, handlerVars, rlVars, sideVars>>

SpecCrops == InitCrops /\ [][NextCrops]_vars

\* The freshness summary alone (line 145), over the results the agents can leave:
\* each of the Soil and Weather results absent (agent not selected), an error
\* result, or a real result with either freshness the agent reports; a crop plan
\* only beside both results.
FreshnessSoilResults ==
    {NoneVal, [error |-> TRUE, health_score |-> 5, health_confidence |-> 10,
               data_freshness |-> "unknown"]}
    \cup {[error |-> FALSE, health_score |-> h, health_confidence |-> 75,
           data_freshness |-> f] :
            h \in {3, 6, 9}, f \in {"user_provided", "estimated"}}

FreshnessWeatherResults ==
    {NoneVal, [error |-> TRUE, suitability_score |-> 5, suitability_confidence |-> 10,
               data_freshness |-> "unknown"]}
    \cup {[error |-> FALSE, suitability_score |-> h, suitability_confidence |-> 75,
           data_freshness |-> f] :
            h \in {3, 6, 9}, f \in {"live", "historical"}}

InitFreshness ==
    /\ query = MkQuery(TRUE, {}, QueryWords, FALSE, FALSE, "none")
    /\ context = [pincode |-> "none", state |-> "", district |-> "",
                  profile_ok |-> TRUE, irrigation_available |-> TRUE]
    /\ ext = [india_post |-> TRUE, geocoder |-> TRUE, live |-> NoneVal,
              retrieval_soil |-> TRUE, retrieval_crop |-> TRUE, crop_conf |-> 80]
    /\ store = [up |-> TRUE, coords |-> FALSE, location |-> FALSE, soil |-> <<>>,
                weather_obs |-> {}]
    /\ pc = "aggregate"
    /\ agent_context = PrepareAgentContext(context)
    /\ \E soil \in FreshnessSoilResults, weather \in FreshnessWeatherResults,
          planned \in BOOLEAN :
        /\ soil # NoneVal \/ weather # NoneVal
        /\ planned => soil # NoneVal /\ weather # NoneVal
        /\ response = [InitialResponse(AnalyzeQueryIntent(query)) EXCEPT
                        !.agents_invoked =
                            (IF soil # NoneVal THEN {"soil"} ELSE {})
                            \cup (IF weather # NoneVal THEN {"weather"} ELSE {})
                            \cup (IF planned THEN {"crop_planning"} ELSE {}),
                        !.soil_data = soil, !.weather_data = weather,
                        !.crop_plan = IF planned
                                      THEN [error |-> FALSE, confidence |-> 80]
                                      ELSE NoneVal]
    /\ calls = <<>>
    /\ faults = {}
    /\ previous = NoneVal
    /\ event = NoneVal
    /\ http = NoneVal
    /\ InitRateLimiterIdle

\* Line 145: response["data_freshness_summary"] = _summarize_data_freshness(response)
SummarizeFreshness ==
    /\ pc = "aggregate"
    /\ response' = [response EXCEPT
                        !.data_freshness_overall = SummarizeDataFreshness(response)]
    /\ pc' = "done"
    /\ UNCHANGED <<query, context, ext, store, agent_context, calls, faults>>

NextFreshness ==
    SummarizeFreshness /\ UNCHANGED <<previous, handlerVars, rlVars, sideVars>>

SpecFreshness == InitFreshness /\ [][NextFreshness]_vars

\* The router alone, over every combination of detected intents, every
\* previous-query context and the empty query (which has no word and so no hit).
RouterQueries ==
    {q \in {MkQuery(TRUE, S, w, ps, pw, "none") :
                S \in SUBSET Intents, w \in {0, QueryWords},
                ps \in BOOLEAN, pw \in BOOLEAN} :
        q.words = 0 => q.hits = Hits({})}

InitRouter ==
    /\ query \in RouterQueries
    /\ context = [pincode |-> "none", state |-> "", district |-> "",
                  profile_ok |-> TRUE, irrigation_available |-> TRUE]
    /\ ext = [india_post |-> TRUE, geocoder |-> TRUE, live |-> NoneVal,
              retrieval_soil |-> TRUE, retrieval_crop |-> TRUE, crop_conf |-> 80]
    /\ store = [up |-> TRUE, coords |-> FALSE, location |-> FALSE, soil |-> <<>>,
                weather_obs |-> {}]
    /\ pc = "start"
    /\ agent_context = NoneVal
    /\ response = NoneVal
    /\ calls = <<>>
    /\ faults = {}
    /\ previous = NoneVal
    /\ event = NoneVal
    /\ http = NoneVal
    /\ InitRateLimiterIdle

NextRouter == OrchStart /\ UNCHANGED <<previous, handlerVars, rlVars, sideVars>>

SpecRouter == InitRouter /\ [][NextRouter]_vars

\* The agents as section 5 of the design lets them run: Soil and Weather in either
\* order, Crop-Planning after both.
ParStart == StartBody("par")
ParSoilFirst == pc = "par" /\ SoilCall("par_soil_done")
ParWeatherSecond == pc = "par_soil_done" /\ WeatherCall("crop")
ParWeatherFirst == pc = "par" /\ WeatherCall("par_weather_done")
ParSoilSecond == pc = "par_weather_done" /\ SoilCall("crop")

NextPar ==
    \/ ParStart /\ UNCHANGED <<previous, handlerVars, rlVars, sideVars>>
    \/ ParSoilFirst /\ UNCHANGED <<previous, handlerVars, rlVars, sideVars>>
    \/ ParWeatherSecond /\ UNCHANGED <<previous, handlerVars, rlVars, sideVars>>
    \/ ParWeatherFirst /\ UNCHANGED <<previous, handlerVars, rlVars, sideVars>>
    \/ ParSoilSecond /\ UNCHANGED <<previous, handlerVars, rlVars, sideVars>>
    \/ RunCrop /\ UNCHANGED <<previous, handlerVars, rlVars, sideVars>>
    \/ Aggregate /\ UNCHANGED <<previous, handlerVars, rlVars, sideVars>>
    \/ AggregateFails /\ UNCHANGED <<previous, handlerVars, rlVars, sideVars>>

SpecPar == Init /\ [][NextPar]_vars

(***************************************************************************)
(* The query entry point (src/src/handler.py)                              *)
(***************************************************************************)
\* event["body"]: absent (None or ""), a string that is no JSON, JSON that is no
\* object, or a JSON object.
BodyKinds == {"absent", "malformed", "not_object", "object"}

\* The "question"/"query" entry of the body: missing, the empty string, a text, or
\* a non-zero number.
QuestionKinds == {"missing", "empty", "text", "number"}

\* event["queryStringParameters"]: absent, or present without or with a query.
ParamKinds == {"absent", "without_query", "with_query"}

\* The text of the request's query: one the router answers with all three agents.
HandlerQueries == {MkQuery(TRUE, {}, QueryWords, FALSE, FALSE, "none")}

PlainContext ==
    [pincode |-> "none", state |-> "", district |-> "", profile_ok |-> TRUE,
     irrigation_available |-> TRUE]

CalmExternals ==
    [india_post |-> TRUE, geocoder |-> TRUE, live |-> NoneVal,
     retrieval_soil |-> TRUE, retrieval_crop |-> TRUE, crop_conf |-> 80]

EmptyStore ==
    [up |-> TRUE, coords |-> FALSE, location |-> FALSE, soil |-> <<>>,
     weather_obs |-> {}]

Events ==
    [body : BodyKinds, question : QuestionKinds, params : ParamKinds,
     use_agents : BOOLEAN, text : HandlerQueries, location : Contexts]

\* Lines 21-23 and 33-35: the query the handler reads, None when there is none.  It
\* reads the body when there is one and the query string only otherwise.
ParsedQuery(ev) ==
    IF ev.body = "object"
    THEN CASE ev.question = "text" -> ev.text
           [] ev.question = "number" -> MkQuery(FALSE, {}, 0, FALSE, FALSE, "none")
           [] OTHER -> NoneVal
    ELSE IF ev.body = "absent" /\ ev.params = "with_query" THEN ev.text
    ELSE NoneVal

\* Lines 25-31 and 37-43: user_context; the query-string form has no user_profile.
ParsedContext(ev) ==
    IF ev.body = "object" THEN ev.location
    ELSE [ev.location EXCEPT !.profile_ok = TRUE]

\* enrich_context_from_pincode: fills state and district from the stored or the
\* newly learned location of the pincode; returns the context and the store.
EnrichContextFromPincode(c, st, e) ==
    IF c.pincode = "none" \/ (c.state # "" /\ c.district # "")
    THEN [ctx |-> c, store |-> st]
    ELSE LET loc == LearnPincodeLocation(st, e)
         IN  [ctx |-> IF loc.found THEN EnrichedContext(c) ELSE c,
              store |-> loc.store]

\* Parts of the request and of its environment that the handler never reads are
\* fixed to one value.
HandlerConsulted(ev, e, s) ==
    LET reaches == ParsedQuery(ev) # NoneVal
        c == ev.location
        agentsRun == reaches /\ ev.use_agents /\ ParsedQuery(ev).valid
                     /\ ParsedContext(ev).profile_ok
    IN  /\ (ev.body # "object" => ev.question = "missing")
        /\ (ev.body # "absent" => ev.params = "absent")
        /\ (~reaches => c = PlainContext /\ ev.use_agents)
        /\ (ev.body # "object" => c.profile_ok)
        /\ (~agentsRun => e.retrieval_soil /\ e.retrieval_crop /\ e.crop_conf = 80
                           /\ e.live = NoneVal)
        /\ ((~reaches \/ c.pincode = "none") =>
                e.india_post /\ e.geocoder /\ s.up /\ ~s.coords /\ ~s.location)
        /\ (~s.up => ~s.coords /\ ~s.location)

InitHandler ==
    /\ event \in Events
    /\ ext \in Externals
    /\ store \in Stores
    /\ HandlerConsulted(event, ext, store)
    /\ query = NoneVal
    /\ context = NoneVal
    /\ pc = "handler"
    /\ agent_context = NoneVal
    /\ response = NoneVal
    /\ calls = <<>>
    /\ faults = {}
    /\ previous = NoneVal
    /\ http = NoneVal
    /\ InitRateLimiterIdle

HttpResponse(code, error) == [statusCode |-> code, error |-> error]

\* Lines 19-57: parsing the event.  json.loads of a malformed body and body.get on
\* a body that is no object raise inside the try block (lines 92-98: 500).
HandlerParse ==
    /\ pc = "handler"
    /\ IF event.body = "malformed"
       THEN /\ http' = HttpResponse(500, "JSONDecodeError")
            /\ pc' = "answered"
            /\ UNCHANGED <<query, context>>
       ELSE IF event.body = "not_object"
       THEN /\ http' = HttpResponse(500, "AttributeError")
            /\ pc' = "answered"
            /\ UNCHANGED <<query, context>>
       ELSE IF event.body = "absent" /\ event.params = "absent"
       THEN /\ http' = HttpResponse(400, "No question provided")
            /\ pc' = "answered"
            /\ UNCHANGED <<query, context>>
       ELSE IF ParsedQuery(event) = NoneVal
       THEN /\ http' = HttpResponse(400, "Question/query parameter is required")
            /\ pc' = "answered"
            /\ UNCHANGED <<query, context>>
       ELSE /\ query' = ParsedQuery(event)
            /\ context' = ParsedContext(event)
            /\ pc' = "enrich"
            /\ UNCHANGED http
    /\ UNCHANGED <<event, ext, store, agent_context, response, calls, faults,
                   previous>>

\* Lines 59-62: location enrichment, then the multi-agent or the retrieval path.
HandlerEnrich ==
    /\ pc = "enrich"
    /\ LET r == EnrichContextFromPincode(context, store, ext)
       IN  /\ context' = r.ctx
           /\ store' = r.store
    /\ pc' = IF event.use_agents THEN "start" ELSE "rag"
    /\ UNCHANGED <<event, http, query, ext, agent_context, response, calls, faults,
                   previous>>

\* Lines 66-78 and 86-98: orchestrate_query has returned (or raised); call_llm
\* answers or raises; the handler answers 200, or 500 from its except branch.
HandlerRespond ==
    /\ pc \in {"done", "raised"}
    /\ \E llm_ok \in BOOLEAN :
        http' = IF pc = "raised" THEN HttpResponse(500, "orchestrate_query")
                ELSE IF llm_ok THEN HttpResponse(200, "")
                ELSE HttpResponse(500, "call_llm")
    /\ pc' = "answered"
    /\ UNCHANGED <<event, query, context, ext, store, agent_context, response, calls,
                   faults, previous>>

\* Lines 79-84 and 86-98: the retrieval pipeline without agents.
HandlerRag ==
    /\ pc = "rag"
    /\ \E retrieval_ok \in BOOLEAN, llm_ok \in BOOLEAN :
        http' = IF ~retrieval_ok THEN HttpResponse(500, "retrieve_documents")
                ELSE IF llm_ok THEN HttpResponse(200, "")
                ELSE HttpResponse(500, "call_llm")
    /\ pc' = "answered"
    /\ UNCHANGED <<event, query, context, ext, store, agent_context, response, calls,
                   faults, previous>>

NextHandler ==
    \/ HandlerParse /\ UNCHANGED <<rlVars, sideVars>>
    \/ HandlerEnrich /\ UNCHANGED <<rlVars, sideVars>>
    \/ OrchStart /\ UNCHANGED <<previous, handlerVars, rlVars, sideVars>>
    \/ RunSoil /\ UNCHANGED <<previous, handlerVars, rlVars, sideVars>>
    \/ RunWeather /\ UNCHANGED <<previous, handlerVars, rlVars, sideVars>>
    \/ RunCrop /\ UNCHANGED <<previous, handlerVars, rlVars, sideVars>>
    \/ Aggregate /\ UNCHANGED <<previous, handlerVars, rlVars, sideVars>>
    \/ AggregateFails /\ UNCHANGED <<previous, handlerVars, rlVars, sideVars>>
    \/ HandlerRespond /\ UNCHANGED <<rlVars, sideVars>>
    \/ HandlerRag /\ UNCHANGED <<rlVars, sideVars>>

SpecHandler == InitHandler /\ [][NextHandler]_vars

(***************************************************************************)
(* Properties of the orchestrator                                          *)
(***************************************************************************)
Returned == pc = "done"
Selected == IF query.valid /\ context.profile_ok
            THEN AnalyzeQueryIntent(query).agents ELSE {}
CallsOf(fn) == {i \in DOMAIN calls : calls[i].fn = fn}
ErrorAgents(r) == {r.agent_errors[i] : i \in DOMAIN r.agent_errors}

\* C1: orchestrate_query never raises to its caller; every failure outside the
\* agents' own handlers (a query that is no string, a null user_profile, a failure
\* of the aggregation steps) ends in a returned result with agents_invoked empty,
\* exactly one agent_errors entry naming "orchestrator", overall_confidence 0.0
\* and a non-empty fallback prompt.
C1_NeverRaises ==
    /\ pc # "raised"
    /\ (Returned /\ (~query.valid \/ ~context.profile_ok) => response.error)
    /\ (Returned /\ response.error =>
            /\ response.agents_invoked = {}
            /\ response.agent_errors = <<"orchestrator">>
            /\ response.overall_confidence = 0
            /\ Len(response.llm_prompt_input) > 0)

\* A request whose user_profile is a JSON null came back as the failure result.
C1_Witness ==
    /\ Returned /\ response.error
    /\ query.valid /\ ~context.profile_ok

\* C2: whenever an agent hit an internal exception, the returned (non-failure)
\* result has an agent_errors entry naming that agent, every selected agent was
\* still called, and agents_invoked still lists the selected agents.
C2_AgentFailureRecorded ==
    (Returned /\ ~response.error) =>
        /\ faults \subseteq ErrorAgents(response)
        /\ response.agents_invoked = Selected
        /\ ("soil" \in Selected => CallsOf("analyze_soil") # {})
        /\ ("weather" \in Selected => CallsOf("analyze_weather") # {})
        /\ ("crop_planning" \in Selected => CallsOf("plan_crops") # {})

\* C3: plan_crops is called at most once and only after the analyze_soil and
\* analyze_weather calls of the request; a returned result that lists crop_planning
\* comes from exactly one plan_crops call, whose soil and weather inputs are the
\* soil_data and weather_data of that result whenever those are non-null.
C3_CropAfterBoth ==
    /\ Cardinality(CallsOf("plan_crops")) <= 1
    /\ \A i \in CallsOf("plan_crops") :
        /\ "soil" \in Selected => \E j \in CallsOf("analyze_soil") : j < i
        /\ "weather" \in Selected => \E j \in CallsOf("analyze_weather") : j < i
        /\ \A j \in CallsOf("analyze_soil") \cup CallsOf("analyze_weather") : j < i
    /\ (Returned /\ "crop_planning" \in response.agents_invoked) =>
        /\ Cardinality(CallsOf("plan_crops")) = 1
        /\ \A i \in CallsOf("plan_crops") :
            /\ response.soil_data # NoneVal => calls[i].soil = response.soil_data
            /\ response.weather_data # NoneVal =>
                    calls[i].weather = response.weather_data

\* A returned result with real soil and weather data and a crop plan.
C3_Witness ==
    /\ Returned /\ "crop_planning" \in response.agents_invoked
    /\ response.soil_data # NoneVal /\ ~response.soil_data.error
    /\ response.weather_data # NoneVal
    /\ response.crop_plan # NoneVal

\* The store as the Soil Agent reads it at the start of the request (no learned
\* soil profile yet; availability never changes).
SoilViewAtStart == [store EXCEPT !.soil = <<>>]

\* C4: the Soil result and the Weather result do not depend on the order in which
\* the two agents run: the Soil result is the one computed from the caller's
\* context (its state and district as passed in), and the Weather values are the
\* ones computed from the caller's context.
C4_OrderIndependent ==
    (response # NoneVal /\ ~response.error) =>
        /\ response.soil_data # NoneVal =>
                response.soil_data =
                    AnalyzeSoil(query, PrepareAgentContext(context), SoilViewAtStart,
                                ext.retrieval_soil).value
        /\ (response.weather_data # NoneVal /\ ~response.weather_data.error) =>
                /\ response.weather_data.temp_min =
                    GetWeatherData(WeatherRegion(PrepareAgentContext(context)),
                                   ext.live).temp_min
                /\ response.weather_data.data_freshness =
                    GetWeatherData(WeatherRegion(PrepareAgentContext(context)),
                                   ext.live).data_freshness

\* C5 as stated: every returned result has 0.1 <= overall_confidence <= 1.0.
C5_BoundsOnEveryPath ==
    Returned => (10 <= response.overall_confidence
                 /\ response.overall_confidence <= 100)

\* C5 amended: every result returned by the normal path (agent failures and failing
\* externals included) has 0.1 <= overall_confidence <= 1.0; the result of the
\* catch-all failure path has overall_confidence = 0.0.
C5_BoundsOnNormalPath ==
    Returned =>
        IF response.error THEN response.overall_confidence = 0
        ELSE 10 <= response.overall_confidence /\ response.overall_confidence <= 100

\* All three agents failed on a query without keywords: the lower clamp decides.
C5_Witness ==
    /\ Returned /\ ~response.error
    /\ faults = AllAgents
    /\ response.intent_confidence = 0
    /\ response.overall_confidence = 10

(***************************************************************************)
(* Rate limiter: src/src/voice/rate_limiter.py, one (session, kind) key     *)
(***************************************************************************)
\* Seconds are scaled: one unit of the clock is half a window.
WindowSeconds == 2
MaxRequests == 2
TtlBuffer == 1
NProcs == 2
MaxTime == 3
MaxCalls == 4
MaxFaults == 1

\* What a get_item or a put_item can do: answer, raise botocore's ClientError
\* (a service-side error), or raise another botocore exception (no endpoint
\* connection, connect or read timeout), which is not a ClientError.
StoreOutcomes == {"ok", "ClientError", "BotoCoreError"}

\* The number of finished calls whose log entry is in S.
RECURSIVE Copies(_)
Copies(S) ==
    IF S = {} THEN 0
    ELSE LET e == CHOOSE x \in S : TRUE IN log[e] + Copies(S \ {e})

\* Store operations that failed so far; a run sees at most MaxFaults of them.
Faulted == {e \in BagToSet(log) : e.failure # "none"}
StoreAnswers == IF Copies(Faulted) < MaxFaults THEN StoreOutcomes ELSE {"ok"}

\* Lines 78-81: the locals of a call that has read the clock at t.
NewCall(t) ==
    [pc |-> "get", current_time |-> t, window_start |-> t,
     ttl_time |-> t + WindowSeconds + TtlBuffer, new_count |-> 0, seen |-> NoneVal]

\* No stored window is ever taken for the current one.
InWindow_Never(current_time, stored_window_start) == FALSE

\* Line 93: the stored window is still the current one.
InWindow(current_time, stored_window_start) ==
    current_time - stored_window_start < WindowSeconds

\* Line 95 with the comparison off by one.
LimitReached_Late(request_count) == request_count > MaxRequests

\* Line 95
LimitReached(request_count) == request_count >= MaxRequests

\* Seconds to the end of the window counted from the window start only.
ResetSeconds_WholeWindow(current_time, window_start) == WindowSeconds

\* Lines 96 and 128
ResetSeconds(current_time, window_start) ==
    WindowSeconds - (current_time - window_start)

\* Lines 137-142: `except RateLimitExceeded: raise`, `except ClientError` returns
\* (True, max_requests - 1, window_seconds); every other exception leaves the call.
CatchStoreError(kind) ==
    IF kind = "ClientError"
    THEN [outcome |-> "allowed", remaining |-> MaxRequests - 1,
          reset |-> WindowSeconds]
    ELSE [outcome |-> "raised", remaining |-> 0, reset |-> 0]

\* One finished call as its caller and the store saw it.
LogEntry(c, outcome, failure, reset, window_start, new_count) ==
    [outcome |-> outcome, failure |-> failure, time |-> c.current_time,
     reset |-> reset, window_start |-> window_start, count |-> new_count,
     seen |-> c.seen, stored |-> table']

\* The log with one more finished call.
Logged(e) == log (+) SetToBag({e})

\* The calls in flight: the processes (Lambda instances) keep nothing between two
\* calls, so a process is its call.
InFlight == BagToSet(proc)
Ended(c) == proc (-) SetToBag({c})
Moved(c, d) == Ended(c) (+) SetToBag({d})

\* Lines 78-81: the clock is read once, before the store is.
Begin ==
    /\ BagCardinality(proc) < NProcs
    /\ BagCardinality(log) + BagCardinality(proc) < MaxCalls
    /\ proc' = proc (+) SetToBag({NewCall(now)})
    /\ UNCHANGED <<now, table, log, writes>>

\* Lines 85-112: get_item and the decision taken on the item.
GetItem(c) ==
    /\ c.pc = "get"
    /\ \E res \in StoreAnswers :
        LET item == table
        IN  IF res # "ok"
            THEN LET h == CatchStoreError(res)
                 IN  /\ table' = table
                     /\ log' = Logged(LogEntry(c, h.outcome, res, h.reset,
                                               c.window_start, 0))
                     /\ proc' = Ended(c)
            ELSE IF item # NoneVal
                    /\ InWindow(c.current_time, item.window_start)
                    /\ LimitReached(item.request_count)
            THEN /\ table' = table
                 /\ log' = Logged(
                        [LogEntry(c, "rate_limited", "none",
                                  ResetSeconds(c.current_time, item.window_start),
                                  item.window_start, item.request_count)
                            EXCEPT !.seen = item])
                 /\ proc' = Ended(c)
            ELSE /\ proc' = Moved(c,
                        IF item # NoneVal
                           /\ InWindow(c.current_time, item.window_start)
                        THEN [c EXCEPT !.pc = "put", !.seen = item,
                                       !.new_count = item.request_count + 1,
                                       !.window_start = item.window_start]
                        ELSE [c EXCEPT !.pc = "put", !.seen = item,
                                       !.new_count = 1,
                                       !.window_start = c.current_time])
                 /\ UNCHANGED <<table, log>>
    /\ UNCHANGED <<now, writes>>

\* Lines 115-135: put_item of the whole record, then the return.
PutItem(c) ==
    /\ c.pc = "put"
    /\ \E res \in StoreAnswers :
        LET record == [request_count |-> c.new_count,
                       window_start |-> c.window_start, ttl |-> c.ttl_time]
        IN  IF res # "ok"
            THEN LET h == CatchStoreError(res)
                 IN  /\ table' = table
                     /\ writes' = writes
                     /\ log' = Logged(LogEntry(c, h.outcome, res, h.reset,
                                               c.window_start, c.new_count))
            ELSE /\ table' = record
                 /\ writes' = writes \cup {record}
                 /\ log' = Logged(
                        LogEntry(c, "allowed", "none",
                                 ResetSeconds(c.current_time, c.window_start),
                                 c.window_start, c.new_count))
    /\ proc' = Ended(c)
    /\ UNCHANGED now

\* time.time() advances.  A call in flight ends within the 300 s that line 81 adds
\* to the window (boto3 and the Lambda runtime time it out long before).
Tick ==
    /\ now < MaxTime
    /\ \A c \in InFlight : now - c.current_time < TtlBuffer
    /\ now' = now + 1
    /\ UNCHANGED <<table, proc, log, writes>>

\* The store deletes a record whose ttl has passed (class docstring, lines 31-44).
TtlExpire ==
    /\ table # NoneVal
    /\ now >= table.ttl
    /\ table' = NoneVal
    /\ UNCHANGED <<now, proc, log, writes>>

\* No orchestrate_query request is part of the rate limiter's runs.
InitOrchestratorIdle ==
    /\ query = NoneVal /\ context = NoneVal /\ ext = NoneVal /\ store = NoneVal
    /\ pc = "idle" /\ agent_context = NoneVal /\ response = NoneVal
    /\ calls = <<>> /\ faults = {} /\ previous = NoneVal
    /\ event = NoneVal /\ http = NoneVal

InitRL ==
    /\ InitOrchestratorIdle
    /\ now = 0
    /\ table = NoneVal
    /\ proc = EmptyBag
    /\ log = EmptyBag
    /\ writes = {}
    /\ status = NoneVal
    /\ learn = NoneVal
    /\ voice = [asr |-> NoneVal, tts |-> NoneVal, pos |-> "idle", before |-> NoneVal,
                http |-> NoneVal]

\* Up to NProcs processes calling check_and_increment concurrently.
NextRL ==
    \/ Begin /\ UNCHANGED <<orchVars, sideVars>>
    \/ \E c \in InFlight : GetItem(c) /\ UNCHANGED <<orchVars, sideVars>>
    \/ \E c \in InFlight : PutItem(c) /\ UNCHANGED <<orchVars, sideVars>>
    \/ Tick /\ UNCHANGED <<orchVars, sideVars>>
    \/ TtlExpire /\ UNCHANGED <<orchVars, sideVars>>

SpecRL == InitRL /\ [][NextRL]_vars

\* Calls made one at a time: a call starts when no other call is in flight.
BeginSeq == InFlight = {} /\ Begin

NextRLSeq ==
    \/ BeginSeq /\ UNCHANGED <<orchVars, sideVars>>
    \/ \E c \in InFlight : GetItem(c) /\ UNCHANGED <<orchVars, sideVars>>
    \/ \E c \in InFlight : PutItem(c) /\ UNCHANGED <<orchVars, sideVars>>
    \/ Tick /\ UNCHANGED <<orchVars, sideVars>>
    \/ TtlExpire /\ UNCHANGED <<orchVars, sideVars>>

SpecRLSeq == InitRL /\ [][NextRLSeq]_vars

\* get_status with the window test of line 171 dropped.
StatusOf_NoWindow(item, current_time) ==
    IF item = NoneVal
    THEN [allowed |-> TRUE, remaining |-> MaxRequests, reset_in_seconds |-> 0,
          current_count |-> 0]
    ELSE LET remaining == Max(0, MaxRequests - item.request_count)
         IN  [allowed |-> remaining > 0, remaining |-> remaining,
              reset_in_seconds |-> ResetSeconds(current_time, item.window_start),
              current_count |-> item.request_count]

\* Lines 157-187: what get_status returns for the item it read at current_time.
StatusOf(item, current_time) ==
    IF item = NoneVal \/ current_time - item.window_start >= WindowSeconds
    THEN [allowed |-> TRUE, remaining |-> MaxRequests, reset_in_seconds |-> 0,
          current_count |-> 0]
    ELSE LET remaining == Max(0, MaxRequests - item.request_count)
         IN  [allowed |-> remaining > 0, remaining |-> remaining,
              reset_in_seconds |-> WindowSeconds - (current_time - item.window_start),
              current_count |-> item.request_count]

\* Lines 144-196: get_status reads the clock and the item once; `except
\* ClientError` returns the open status, every other exception leaves the call.
GetStatus ==
    /\ \E res \in StoreOutcomes :
        status' = [outcome |-> IF res = "BotoCoreError" THEN "raised" ELSE "returned",
                   failure |-> IF res = "ok" THEN "none" ELSE res,
                   report |-> IF res = "ok" THEN StatusOf(table, now)
                              ELSE StatusOf(NoneVal, now),
                   seen |-> table, time |-> now]
    /\ UNCHANGED <<now, table, proc, log, writes, learn, voice>>

\* Sequential check_and_increment calls with get_status calls between them.
NextRLStatus ==
    \/ BeginSeq /\ UNCHANGED <<orchVars, sideVars>>
    \/ \E c \in InFlight : GetItem(c) /\ UNCHANGED <<orchVars, sideVars>>
    \/ \E c \in InFlight : PutItem(c) /\ UNCHANGED <<orchVars, sideVars>>
    \/ Tick /\ UNCHANGED <<orchVars, sideVars>>
    \/ TtlExpire /\ UNCHANGED <<orchVars, sideVars>>
    \/ GetStatus /\ UNCHANGED orchVars

SpecRLStatus == InitRL /\ [][NextRLStatus]_vars

(***************************************************************************)
(* Voice handlers: src/src/voice/handlers.py.  One session, whose requests  *)
(* are handled one at a time; its asr and its tts record are two keys of    *)
(* the rate-limit table.                                                    *)
(***************************************************************************)
\* check_and_increment (lines 60-142) made at time t on a key holding item, as one
\* step: the outcome, and the item the key holds afterwards.  res is what the
\* store does on the call's get_item or put_item.
CheckAndIncrement(item, t, res) ==
    IF res # "ok"
    THEN [outcome |-> CatchStoreError(res).outcome, item |-> item]
    ELSE IF item # NoneVal /\ InWindow(t, item.window_start)
    THEN IF LimitReached(item.request_count)
         THEN [outcome |-> "rate_limited", item |-> item]
         ELSE [outcome |-> "allowed",
               item |-> [request_count |-> item.request_count + 1,
                         window_start |-> item.window_start,
                         ttl |-> t + WindowSeconds + TtlBuffer]]
    ELSE [outcome |-> "allowed",
          item |-> [request_count |-> 1, window_start |-> t,
                    ttl |-> t + WindowSeconds + TtlBuffer]]

\* asr_handler (line 182) and tts_handler (line 265): one asr or tts request of
\* the session.
SingleRequest ==
    /\ voice.pos = "idle"
    /\ \E kind \in {"asr", "tts"}, res \in StoreOutcomes :
        voice' = [voice EXCEPT ![kind] = CheckAndIncrement(voice[kind], now, res).item,
                               !.before = NoneVal, !.http = NoneVal]
    /\ UNCHANGED <<now, table, proc, log, writes, status, learn>>

\* voice_pipeline_handler, line 343: the asr check of a pipeline request.  A call
\* that leaves at a rate-limit check answers 429 from `except RateLimitExceeded`
\* (345-349) or 500 from the outer `except Exception` (384-386).
PipelineCheckAsr ==
    /\ voice.pos = "idle"
    /\ \E res \in StoreOutcomes :
        LET r == CheckAndIncrement(voice.asr, now, res)
        IN  voice' = [voice EXCEPT
                        !.before = [asr |-> voice.asr, tts |-> voice.tts,
                                    asr_time |-> now, tts_time |-> now],
                        !.asr = r.item,
                        !.pos = IF r.outcome = "allowed" THEN "tts" ELSE "idle",
                        !.http = IF r.outcome = "allowed" THEN NoneVal
                                 ELSE [statusCode |-> IF r.outcome = "rate_limited"
                                                        THEN 429 ELSE 500]]
    /\ UNCHANGED <<now, table, proc, log, writes, status, learn>>

\* Line 344: the tts check of the same request.
PipelineCheckTts ==
    /\ voice.pos = "tts"
    /\ \E res \in StoreOutcomes :
        LET r == CheckAndIncrement(voice.tts, now, res)
        IN  voice' = [voice EXCEPT
                        !.before.tts_time = now,
                        !.tts = r.item,
                        !.pos = IF r.outcome = "allowed" THEN "run" ELSE "idle",
                        !.http = IF r.outcome = "allowed" THEN NoneVal
                                 ELSE [statusCode |-> IF r.outcome = "rate_limited"
                                                        THEN 429 ELSE 500]]
    /\ UNCHANGED <<now, table, proc, log, writes, status, learn>>

\* Lines 351-386: transcription, the RAG query and synthesis; 400 when nothing
\* was transcribed, 500 when a step raised.
PipelineRun ==
    /\ voice.pos = "run"
    /\ \E code \in {200, 400, 500} :
        voice' = [voice EXCEPT !.pos = "idle", !.http = [statusCode |-> code]]
    /\ UNCHANGED <<now, table, proc, log, writes, status, learn>>

NextVoice ==
    \/ SingleRequest /\ UNCHANGED orchVars
    \/ PipelineCheckAsr /\ UNCHANGED orchVars
    \/ PipelineCheckTts /\ UNCHANGED orchVars
    \/ PipelineRun /\ UNCHANGED orchVars
    \/ Tick /\ UNCHANGED <<orchVars, sideVars>>

SpecVoice == InitRL /\ [][NextVoice]_vars

(***************************************************************************)
(* Properties of the rate limiter                                          *)
(***************************************************************************)
\* Calls the counter admitted: allowed after a successful read and write.
Finished == BagToSet(log)
Admitted == {e \in Finished : e.outcome = "allowed" /\ e.failure = "none"}
AdmittedInWindow(ws) == Copies({e \in Admitted : e.window_start = ws})
AdmittedDuring(t) ==
    Copies({e \in Admitted : t <= e.time /\ e.time < t + WindowSeconds})
Times == 0..MaxTime

C7_ConcurrentBound ==
    \A ws \in Times :
        AdmittedInWindow(ws) <= MaxRequests + NProcs - 1

\* C8: every record ever written has 1 <= request_count <= max_requests, under
\* every interleaving, rollovers and lost updates included.
C8_StoredCountInRange ==
    \A r \in writes : 1 <= r.request_count /\ r.request_count <= MaxRequests

\* A full record was written, a later window was started, and an update was lost
\* (more calls admitted in a window than its record ever counted).
C8_Witness ==
    /\ \E r \in writes : r.request_count = MaxRequests
    /\ \E r \in writes : r.window_start > 0
    /\ \E ws \in Times : AdmittedInWindow(ws) > MaxRequests

\* A finished call that read a record at its limit, the record counted as being in
\* its window by the test of line 93.
AtLimit(e) ==
    /\ e.failure = "none"
    /\ e.seen # NoneVal
    /\ e.time - e.seen.window_start < WindowSeconds
    /\ e.seen.request_count >= MaxRequests

Rejected(e) ==
    /\ e.outcome = "rate_limited"
    /\ e.reset = WindowSeconds - (e.time - e.seen.window_start)
    /\ e.stored = e.seen

\* C9 as stated: a call that reads a record with now - window_start < window_seconds
\* and request_count >= max_requests is rejected with
\* reset = window_seconds - (now - window_start), 1 <= reset <= window_seconds, and
\* leaves the record as it was.
C9_RejectWithResetInWindow ==
    \A e \in Finished :
        AtLimit(e) =>
            /\ Rejected(e)
            /\ 1 <= e.reset /\ e.reset <= WindowSeconds

\* C9 amended: such a call is rejected with
\* reset = window_seconds - (now - window_start) >= 1 and leaves request_count,
\* window_start and ttl as they were; reset <= window_seconds holds when the call's
\* clock reading is not before window_start (0 <= now - window_start), and reset
\* exceeds window_seconds when it is before.
C9_RejectWithReset ==
    \A e \in Finished :
        AtLimit(e) =>
            /\ Rejected(e)
            /\ 1 <= e.reset
            /\ (e.time >= e.seen.window_start <=> e.reset <= WindowSeconds)

\* A rejection late in the window (reset below the window length) after which the
\* record is still the one that was read.
C9_Witness ==
    \E e \in Finished :
        /\ AtLimit(e)
        /\ e.outcome = "rate_limited"
        /\ e.reset < WindowSeconds
        /\ table = e.seen

\* C10: a call whose store read or store write failed returns allowed; it is
\* neither rejected nor left by the storage error.
C10_FailOpen ==
    \A e \in Finished : e.failure # "none" => e.outcome = "allowed"

(***************************************************************************)
(* Properties of location resolution and of the agents                     *)
(***************************************************************************)
\* The Weather Agent is about to resolve the location of the request.
Resolving == pc = "weather" /\ "weather" \in response.agents_invoked
Resolution == GetCoordinates(agent_context, store, ext)
PincodeLevel ==
    {"pincode", "learned_pincode", "india_post_pincode", "geocoded_pincode"}
StateLevel == {"india_post_state", "state"}

\* C11: location resolution always returns coordinates, from the first source that
\* succeeds in the order static pincode table, learned coordinates, the directories
\* (India Post with the geocoder), static state table, country-centre default; a
\* pincode of the static table touches neither the store nor an external service.
C11_FirstSourceThatSucceeds ==
    Resolving =>
        LET c == agent_context
            r == Resolution
            learned == store.up /\ store.coords
        IN  /\ r.source \in PincodeLevel \cup StateLevel \cup {"default_india"}
            /\ (c.pincode = "static" => r.source = "pincode" /\ r.store = store)
            /\ (c.pincode = "new" /\ learned => r.source = "learned_pincode")
            /\ (c.pincode = "new" /\ ~learned /\ ext.geocoder =>
                    r.source \in {"india_post_pincode", "geocoded_pincode"})
            /\ (c.pincode = "new" /\ ~learned /\ ~ext.geocoder =>
                    r.source \in StateLevel \cup {"default_india"})
            /\ (c.pincode = "none" =>
                    r.source = IF c.state \in StaticStates THEN "state"
                               ELSE "default_india")

\* C12: whenever the resolution resolves the pincode (static table, learned
\* coordinates, or live through the directories), the context it leaves has state
\* and district filled in when the input omitted them.
C12_ResolvedPincodeEnriches ==
    (Resolving /\ Resolution.source \in PincodeLevel) =>
        /\ Resolution.ctx.state # ""
        /\ Resolution.ctx.district # ""

\* The four weather values of a Weather result.
WeatherValues(w) == <<w.temp_min, w.temp_max, w.rainfall, w.humidity>>
RequestRegion == WeatherRegion(PrepareAgentContext(context))
AllLive(w) ==
    /\ ext.live # NoneVal
    /\ WeatherValues(w) = WeatherValues(ext.live)
    /\ w.data_freshness = "live"
AllHistorical(w) ==
    /\ WeatherValues(w) = WeatherValues(RegionalWeatherProfile(RequestRegion))
    /\ w.data_freshness = "historical"

\* C13 as stated: every Weather result is all live (freshness live) or all from the
\* regional historical profile (freshness historical).
C13_LiveOrHistorical ==
    (response # NoneVal /\ response.weather_data # NoneVal) =>
        AllLive(response.weather_data) \/ AllHistorical(response.weather_data)

\* C13 amended: every Weather result other than the default-filled error result is
\* all live when the fetch returned an observation and all historical when the
\* fetch failed, never a mixture; the error result carries the fixed defaults
\* 20, 30, 100, 60 with freshness unknown.
C13_LiveAdoptionAtomic ==
    (response # NoneVal /\ response.weather_data # NoneVal) =>
        LET w == response.weather_data
        IN  IF w.error
            THEN /\ WeatherValues(w) = <<20, 30, 100, 60>>
                 /\ w.data_freshness = "unknown"
                 /\ ext.live # NoneVal
            ELSE IF ext.live = NoneVal THEN AllHistorical(w) ELSE AllLive(w)

\* A result that adopted the live observation, in a region whose profile differs
\* from it in all four values.
C13_Witness ==
    /\ Returned /\ ~response.error
    /\ response.weather_data # NoneVal
    /\ AllLive(response.weather_data)
    /\ RequestRegion = "punjab"

\* C14: the failure of the retrieval endpoint does not change an agent's output:
\* whenever the Soil Agent or the Crop-Planning Agent is about to run, the result
\* it returns with the retrieval outcome of this run equals the result it returns
\* when retrieval succeeds, and so is never the default-filled error result.
C14_RetrievalAdvisory ==
    /\ (pc = "soil" /\ "soil" \in response.agents_invoked) =>
            AnalyzeSoil(query, agent_context, store, ext.retrieval_soil).value
                = AnalyzeSoil(query, agent_context, store, TRUE).value
    /\ (pc = "crop" /\ "crop_planning" \in response.agents_invoked) =>
            LET i == CropPlanningInputs(response)
            IN  PlanCrops(i.soil, i.weather, ext.retrieval_crop, ext.crop_conf).value
                    = PlanCrops(i.soil, i.weather, TRUE, ext.crop_conf).value

\* C15: analyze_soil, analyze_weather and plan_crops never raise to the
\* orchestrator, and an agent whose analysis hit an internal exception has
\* returned its default-filled result: the error field set, the fallback
\* confidence 0.1 and, for Soil and Weather, the score 5, which lies in 1..10.
C15_AgentsNeverRaise ==
    (pc \notin {"start", "raised"} /\ ~response.error) =>
        /\ response.agent_errors = <<>>
        /\ "soil" \in faults =>
                /\ response.soil_data # NoneVal
                /\ response.soil_data.error
                /\ response.soil_data.health_confidence = 10
                /\ response.soil_data.health_score = 5
                /\ response.soil_data.health_score \in 1..10
        /\ "weather" \in faults =>
                /\ response.weather_data # NoneVal
                /\ response.weather_data.error
                /\ response.weather_data.suitability_confidence = 10
                /\ response.weather_data.suitability_score = 5
                /\ response.weather_data.suitability_score \in 1..10
        /\ "crop_planning" \in faults =>
                /\ response.crop_plan # NoneVal
                /\ response.crop_plan.error
                /\ response.crop_plan.overall_confidence = 10

\* A run in which all three agents hit an internal exception and returned.
C15_Witness ==
    /\ Returned
    /\ ~response.error
    /\ faults = {"soil", "weather", "crop_planning"}

\* C16: the agent set the Intent Router returns is a non-empty, duplicate-free
\* subset of {soil, weather, crop_planning}, and if it contains crop_planning it
\* also contains soil and weather.
C16_RouterSelection ==
    (pc \notin {"start", "raised"} /\ ~response.error) =>
        LET agents == response.agents_invoked
            list == AgentList(query)
        IN  /\ agents # {}
            /\ agents \subseteq AllAgents
            /\ "crop_planning" \in agents => {"soil", "weather"} \subseteq agents
            /\ \A i, j \in DOMAIN list : i # j => list[i] # list[j]
            /\ agents = {list[i] : i \in DOMAIN list}

\* The router has run on a market-price query whose previous query was about the
\* weather, and selected all three agents.
C16_Witness ==
    /\ pc = "soil"
    /\ query.hits = Hits({"market_info"})
    /\ query.prev_weather
    /\ response.agents_invoked = AllAgents

\* C17: orchestrate_query is idempotent: a second run with the same query, context,
\* clock and external responses, made against the Learning Store the first run
\* left, returns a result equal to the first run's.  (Runs of which only one hit
\* an exception in the aggregation steps are left out.)
C17_Idempotent ==
    (Returned /\ previous # NoneVal /\ previous.error = response.error) =>
        response = previous

\* C18: fallback monotonicity: removing a more specific location signal (the
\* pincode, or the district while the state is kept) never increases the location
\* confidence, soil.health_confidence or overall_confidence.
C18_FallbackMonotone ==
    /\ (pc = "soil" /\ previous = NoneVal) =>
            \A c \in LessSpecific(agent_context) :
                /\ SoilLocationContext(c, store).confidence
                        <= SoilLocationContext(agent_context, store).confidence
                /\ WeatherRegion(c) = WeatherRegion(agent_context)
    /\ (Returned /\ previous # NoneVal /\ ~response.error /\ ~previous.error) =>
            /\ response.overall_confidence <= previous.overall_confidence
            /\ response.soil_data # NoneVal =>
                    response.soil_data.health_confidence
                        <= previous.soil_data.health_confidence

HasSection(name) ==
    \E i \in DOMAIN response.llm_prompt_input : response.llm_prompt_input[i] = name

\* C19 as stated: the returned llm_prompt_input contains the section SOIL ANALYSIS,
\* WEATHER ANALYSIS or CROP RECOMMENDATIONS if and only if the respective agent
\* result is not None.
C19_SectionIffResult ==
    Returned =>
        /\ HasSection("SOIL ANALYSIS") <=> response.soil_data # NoneVal
        /\ HasSection("WEATHER ANALYSIS") <=> response.weather_data # NoneVal
        /\ HasSection("CROP RECOMMENDATIONS") <=> response.crop_plan # NoneVal

\* C19: the returned llm_prompt_input contains the section of an agent if and only
\* if that agent's result is not None and is not an error result.
C19_SectionIffUsableResult ==
    Returned =>
        /\ HasSection("SOIL ANALYSIS") <=>
                (response.soil_data # NoneVal /\ ~response.soil_data.error)
        /\ HasSection("WEATHER ANALYSIS") <=>
                (response.weather_data # NoneVal /\ ~response.weather_data.error)
        /\ HasSection("CROP RECOMMENDATIONS") <=>
                (response.crop_plan # NoneVal /\ ~response.crop_plan.error)

\* A returned prompt with the Weather and Crop sections and without the Soil
\* section, although the Soil Agent returned (its error result).
C19_Witness ==
    /\ Returned
    /\ HasSection("WEATHER ANALYSIS")
    /\ HasSection("CROP RECOMMENDATIONS")
    /\ ~HasSection("SOIL ANALYSIS")
    /\ response.soil_data # NoneVal

Answered == pc = "answered"

\* The part of the event the handler reads holds no non-empty query.
NoQuerySupplied == ParsedQuery(event) = NoneVal

\* C20: lambda_handler answers 400 exactly when no non-empty query is supplied, and
\* it never answers 500 because of an internal failure of an agent or of location
\* enrichment: a request with a query on the multi-agent path whose LLM call
\* succeeded is answered 200.
C20_StatusCodes ==
    Answered =>
        /\ http.statusCode = 400 <=> NoQuerySupplied
        /\ (~NoQuerySupplied /\ event.use_agents /\ http.error # "call_llm") =>
                http.statusCode = 200

(***************************************************************************)
(* Learning Store helpers: src/src/utils/learning_db.py                    *)
(***************************************************************************)
\* Lifetimes of the entries in days: timedelta(days=...) added to the time of the
\* write gives the ttl attribute.
CoordsTtlDays == 365
LocationTtlDays == 730
SoilTtlDays == 730

\* The items the save_* helpers put (their key and their ttl attribute, as days
\* from the write).
\* save_weather_observation puts no ttl attribute.
SavedItem(sk) ==
    CASE sk = "COORDS" -> [pk |-> "PINCODE", sk |-> "COORDS", ttl |-> CoordsTtlDays]
      [] sk = "LOCATION" ->
            [pk |-> "PINCODE", sk |-> "LOCATION", ttl |-> LocationTtlDays]
      [] sk = "PROFILE" -> [pk |-> "SOIL", sk |-> "PROFILE", ttl |-> SoilTtlDays]
      [] sk = "OBS" -> [pk |-> "WEATHER", sk |-> "OBS"]

\* table.put_item of a save_* helper: nothing is put when _get_table() gives None
\* or put_item raises (the helper returns False).
Put(st, item) == IF st.up THEN <<item>> ELSE <<>>

\* learn_pincode_location that looks into the store only after the directory.
LearnPincodeLocationCall_DirectoryFirst(st, e) ==
    IF e.india_post
    THEN [returned |-> TRUE, directory |-> 1, geocoder |-> 1,
          puts |-> Put(st, SavedItem("LOCATION"))
                   \o (IF e.geocoder THEN Put(st, SavedItem("COORDS")) ELSE <<>>)]
    ELSE [returned |-> st.up /\ st.location, directory |-> 1, geocoder |-> 0,
          puts |-> <<>>]

\* learn_pincode_location (lines 337-373): what it returns, the calls it makes to
\* the India Post directory and to the geocoder, and the items it puts.
LearnPincodeLocationCall(st, e) ==
    IF st.up /\ st.location
    THEN [returned |-> TRUE, directory |-> 0, geocoder |-> 0, puts |-> <<>>]
    ELSE IF e.india_post
    THEN [returned |-> TRUE, directory |-> 1, geocoder |-> 1,
          puts |-> Put(st, SavedItem("LOCATION"))
                   \o (IF e.geocoder THEN Put(st, SavedItem("COORDS")) ELSE <<>>)]
    ELSE [returned |-> FALSE, directory |-> 1, geocoder |-> 0, puts |-> <<>>]

\* learn_pincode (lines 376-402)
LearnPincodeCall(st, e) ==
    IF st.up /\ st.coords
    THEN [returned |-> TRUE, directory |-> 0, geocoder |-> 0, puts |-> <<>>]
    ELSE IF e.geocoder
    THEN [returned |-> TRUE, directory |-> 0, geocoder |-> 1,
          puts |-> Put(st, SavedItem("COORDS"))]
    ELSE [returned |-> FALSE, directory |-> 0, geocoder |-> 1, puts |-> <<>>]

\* One finished helper call: the store it found, what it did, the store it left.
LearnRecord(fn, before, trace, after) ==
    [fn |-> fn, before |-> before, returned |-> trace.returned,
     directory |-> trace.directory, geocoder |-> trace.geocoder,
     puts |-> trace.puts, after |-> after]

CallLearnPincodeLocation ==
    /\ store' = LearnPincodeLocation(store, ext).store
    /\ learn' = LearnRecord("learn_pincode_location", store,
                            LearnPincodeLocationCall(store, ext), store')
    /\ UNCHANGED ext

CallLearnPincode ==
    /\ store' = LearnPincode(store, ext).store
    /\ learn' = LearnRecord("learn_pincode", store, LearnPincodeCall(store, ext),
                            store')
    /\ UNCHANGED ext

\* learn_soil_from_query (lines 481-513) through save_soil_profile (437-478).
CallLearnSoilFromQuery ==
    /\ \E region \in LearnedRegions :
        store' = IF store.up
                 THEN [store EXCEPT !.soil =
                        [r \in DOMAIN store.soil \cup {region} |->
                            IF r = region
                            THEN [primary_soil |-> "clay", organic_matter |-> 60]
                            ELSE store.soil[r]]]
                 ELSE store
    /\ learn' = LearnRecord("learn_soil_from_query", store,
                            [returned |-> store.up, directory |-> 0, geocoder |-> 0,
                             puts |-> Put(store, SavedItem("PROFILE"))], store')
    /\ UNCHANGED ext

\* save_weather_observation (lines 542-582)
CallSaveWeatherObservation ==
    /\ \E region \in StaticStates :
        store' = IF store.up
                 THEN [store EXCEPT !.weather_obs = @ \cup {region}]
                 ELSE store
    /\ learn' = LearnRecord("save_weather_observation", store,
                            [returned |-> store.up, directory |-> 0, geocoder |-> 0,
                             puts |-> Put(store, SavedItem("OBS"))], store')
    /\ UNCHANGED ext

\* Between two calls a service or the store becomes available or unavailable; the
\* store keeps its entries.
AvailabilityChanges ==
    /\ \E india_post, geocoder \in BOOLEAN :
        ext' = [ext EXCEPT !.india_post = india_post, !.geocoder = geocoder]
    /\ \E up \in BOOLEAN : store' = [store EXCEPT !.up = up]
    /\ <<ext', store'>> # <<ext, store>>
    /\ UNCHANGED learn

InitLearning ==
    /\ query = NoneVal /\ context = NoneVal
    /\ pc = "idle" /\ agent_context = NoneVal /\ response = NoneVal
    /\ calls = <<>> /\ faults = {} /\ previous = NoneVal
    /\ event = NoneVal /\ http = NoneVal
    /\ ext \in {e \in Externals : /\ e.live = NoneVal /\ e.retrieval_soil
                                  /\ e.retrieval_crop /\ e.crop_conf = 80}
    /\ store \in Stores
    /\ InitRateLimiterIdle

\* What a helper call leaves alone beside the rate limiter.
learningIdle == <<query, context, pc, agent_context, response, calls, faults,
                  previous, handlerVars, status, voice>>

NextLearning ==
    \/ CallLearnPincodeLocation /\ UNCHANGED <<learningIdle, rlVars>>
    \/ CallLearnPincode /\ UNCHANGED <<learningIdle, rlVars>>
    \/ CallLearnSoilFromQuery /\ UNCHANGED <<learningIdle, rlVars>>
    \/ CallSaveWeatherObservation /\ UNCHANGED <<learningIdle, rlVars>>
    \/ AvailabilityChanges /\ UNCHANGED <<learningIdle, rlVars>>

SpecLearning == InitLearning /\ [][NextLearning]_vars

\* Every writer of a store together: the Learning Store helpers and
\* check_and_increment calls made one at a time, with every service available.
InitEntries ==
    /\ InitLearning
    /\ ext.india_post /\ ext.geocoder
    /\ store = [up |-> TRUE, coords |-> FALSE, location |-> FALSE, soil |-> <<>>,
                weather_obs |-> {}]

NextEntries ==
    \/ CallLearnPincodeLocation /\ UNCHANGED <<learningIdle, rlVars>>
    \/ CallLearnPincode /\ UNCHANGED <<learningIdle, rlVars>>
    \/ CallLearnSoilFromQuery /\ UNCHANGED <<learningIdle, rlVars>>
    \/ CallSaveWeatherObservation /\ UNCHANGED <<learningIdle, rlVars>>
    \/ BeginSeq /\ UNCHANGED <<learningIdle, ext, store, learn>>
    \/ \E c \in InFlight : GetItem(c) /\ UNCHANGED <<learningIdle, ext, store, learn>>
    \/ \E c \in InFlight : PutItem(c) /\ UNCHANGED <<learningIdle, ext, store, learn>>
    \/ Tick /\ UNCHANGED <<learningIdle, ext, store, learn>>
    \/ TtlExpire /\ UNCHANGED <<learningIdle, ext, store, learn>>

SpecEntries == InitEntries /\ [][NextEntries]_vars

(***************************************************************************)
(* Properties of the Crop-Planning Agent and of the learning helpers       *)
(***************************************************************************)
Recommended ==
    {response.crop_plan.recommended_crops[i] :
        i \in DOMAIN response.crop_plan.recommended_crops}

CropsPlanned == pc = "aggregate" /\ response.crop_plan # NoneVal

\* C21: every recommended crop is a Crop DB entry whose suitable soils contain the
\* soil result's soil_type (or the soil_type is unknown), and when
\* irrigation_available is false no recommended crop has water_requirement high or
\* very_high, whatever the Weather Agent's optimal_crops list contains.
C21_CropFilters ==
    CropsPlanned =>
        \A c \in Recommended :
            /\ \E i \in DOMAIN Crops : Crops[i] = c
            /\ \/ response.soil_data.soil_type \in SuitableSoil(c)
               \/ response.soil_data.soil_type = "unknown"
            /\ ~agent_context.irrigation_available =>
                    WaterRequirement(c) \notin {"high", "very_high"}

\* Without irrigation, on loam, with rice and sugarcane in the Weather Agent's
\* list: crops are recommended and neither of the two is among them.
C21_Witness ==
    /\ CropsPlanned
    /\ ~agent_context.irrigation_available
    /\ response.soil_data.soil_type = "loam"
    /\ response.weather_data.optimal_crops = {"rice", "sugarcane"}
    /\ Recommended # {}
    /\ Recommended \cap {"rice", "sugarcane"} = {}

\* A get_status call has returned a report read from the store.
Reported == status # NoneVal /\ status.outcome = "returned" /\ status.failure = "none"

\* check_and_increment called at time t on item would raise RateLimitExceeded
\* (rate_limiter.py lines 90-100).
WouldBeRateLimited(item, t) ==
    /\ item # NoneVal
    /\ InWindow(t, item.window_start)
    /\ LimitReached(item.request_count)

\* C22: get_status never writes to the store; it reports allowed = false exactly
\* when a check_and_increment call made at the same instant on the same key would
\* fail with rate_limited; for a missing or expired record it reports
\* remaining = max_requests and current_count = 0.
C22_StatusAgreesWithCheck ==
    /\ [](Reported =>
            /\ (~status.report.allowed) = WouldBeRateLimited(status.seen, status.time)
            /\ (status.seen = NoneVal \/ ~InWindow(status.time, status.seen.window_start)
                  => /\ status.report.remaining = MaxRequests
                     /\ status.report.current_count = 0))
    /\ [][status' # status => table' = table /\ writes' = writes]_vars

\* get_status reported a key at its limit, and one whose window has ended.
C22_Witness ==
    /\ Reported
    /\ status.seen # NoneVal
    /\ status.seen.request_count = MaxRequests
    /\ ~status.report.allowed
    /\ status.time > status.seen.window_start

\* The default rule of lines 266-268 fired: the appends of lines 241-263 selected
\* no agent, neither for a matched intent nor for the previous query.
DefaultRuleFired(q) ==
    /\ \A i \in {"soil_analysis", "weather_analysis", "crop_planning", "market_info"} :
            q.hits[i] = 0
    /\ ~q.prev_soil
    /\ ~q.prev_weather

\* C23: is_default_selection is true if and only if the agent set was produced by
\* the default rule (no agent selected by a matched intent or by previous-query
\* continuity), and in that case the agent set is exactly
\* {soil, weather, crop_planning}.
C23_DefaultFlagIffDefaultRule ==
    (pc \notin {"start", "raised"} /\ ~response.error) =>
        /\ response.is_default_selection <=> DefaultRuleFired(query)
        /\ response.is_default_selection => response.agents_invoked = AllAgents

\* The agent's entry of the response is no real result: the agent failed (its
\* except branch built the result) or it left no result at all.
NoRealResult(data) == data = NoneVal \/ data.error

\* C24: when crop_planning is selected and the Soil (or Weather) agent failed or
\* produced no real result, plan_crops is given the hardcoded default surrogate for
\* it (confidence 0.2, data_sources = ["default_fallback"]); otherwise it is given
\* the agent's real result.
C24_SurrogateForFailedAgent ==
    \A i \in CallsOf("plan_crops") :
        (pc \notin {"start", "raised"} /\ ~response.error) =>
        /\ calls[i].soil = IF NoRealResult(response.soil_data)
                           THEN DefaultSoilData ELSE response.soil_data
        /\ calls[i].weather = IF NoRealResult(response.weather_data)
                              THEN DefaultWeatherData ELSE response.weather_data

\* The freshness values the agents that left a result report (data_freshness of
\* the Soil and of the Weather result; a crop plan has no such entry).
ReportedFreshness(r) ==
    (IF r.soil_data # NoneVal THEN {r.soil_data.data_freshness} ELSE {})
    \cup (IF r.weather_data # NoneVal THEN {r.weather_data.data_freshness} ELSE {})

\* C25: data_freshness_summary.overall is "high_accuracy" exactly when every agent
\* that produced a result reports a freshness in {user_provided, live}; otherwise
\* "estimated_from_historical" when some agent reports "historical", and
\* "mixed_sources" in all remaining cases; for every combination of agents run,
\* including when a crop plan is present.
C25_FreshnessOverall ==
    (pc = "done" /\ ~response.error) =>
        LET fs == ReportedFreshness(response)
        IN  response.data_freshness_overall =
                IF fs \subseteq {"user_provided", "live"} THEN "high_accuracy"
                ELSE IF "historical" \in fs THEN "estimated_from_historical"
                ELSE "mixed_sources"

\* C25 as the code has it: a crop plan adds the entry "2024_msp_data" to the
\* summary, so overall is "high_accuracy" exactly when there is no crop plan and
\* every Soil or Weather result present reports user_provided or live; otherwise
\* "estimated_from_historical" when one of them reports historical, and
\* "mixed_sources" in the remaining cases.
C25_FreshnessOverallWithCropEntry ==
    (pc = "done" /\ ~response.error) =>
        LET fs == ReportedFreshness(response)
        IN  response.data_freshness_overall =
                IF response.crop_plan = NoneVal /\ fs \subseteq {"user_provided", "live"}
                THEN "high_accuracy"
                ELSE IF "historical" \in fs THEN "estimated_from_historical"
                ELSE "mixed_sources"

\* A summary over a user-provided Soil result, a live Weather result and a crop
\* plan: overall is "mixed_sources".
C25_Witness ==
    /\ pc = "done" /\ ~response.error
    /\ response.crop_plan # NoneVal
    /\ response.soil_data # NoneVal /\ response.weather_data # NoneVal
    /\ response.soil_data.data_freshness = "user_provided"
    /\ response.weather_data.data_freshness = "live"
    /\ response.data_freshness_overall = "mixed_sources"

\* The Soil result of a later request that named no soil type and was answered
\* from a learned profile.
AnsweredFromLearned ==
    /\ previous # NoneVal
    /\ pc = "done" /\ ~response.error
    /\ query.soil_type = "none"
    /\ response.soil_data # NoneVal /\ ~response.soil_data.error
    /\ response.soil_data.location_context.fallback_level
            \in {"learned_district", "learned_state"}

\* The region whose learned profile answered the request.
LearnedRegionOf(r) ==
    IF r.soil_data.location_context.fallback_level = "learned_district"
    THEN r.soil_data.location_context.district
    ELSE r.soil_data.location_context.state

\* C26: learned soil profiles round-trip: after the self-learning step stored a
\* profile for a district or state from a query that named soil type T, a later
\* request for that region whose query names no soil type gets soil_type = T from
\* the learned profile.
C26_LearnedSoilRoundTrip ==
    AnsweredFromLearned =>
        response.soil_data.soil_type = store.soil[LearnedRegionOf(response)].primary_soil

\* A call of one of the two pincode helpers has finished.
PincodeHelperCalled ==
    learn # NoneVal /\ learn.fn \in {"learn_pincode", "learn_pincode_location"}

\* The store held the entry the helper looks for.
HeldEntry ==
    /\ learn.before.up
    /\ IF learn.fn = "learn_pincode" THEN learn.before.coords
       ELSE learn.before.location

\* C27: learn_pincode and learn_pincode_location consult the Learning Store first:
\* if the store already holds the entry, they return it and make no external
\* directory or geocoder call and no store write; otherwise they call the external
\* service once, on success write the result to the store once and return it, and
\* on failure return nothing and write nothing.
C27_StoreFirstThenOneCall ==
    PincodeHelperCalled =>
        IF HeldEntry
        THEN /\ learn.returned
             /\ learn.directory + learn.geocoder = 0
             /\ learn.puts = <<>> /\ learn.after = learn.before
        ELSE /\ learn.directory + learn.geocoder = 1
             /\ IF learn.returned THEN Len(learn.puts) = 1
                ELSE learn.puts = <<>> /\ learn.after = learn.before

\* The entries of kind sk the call put.
PutsOf(sk) == {i \in DOMAIN learn.puts : learn.puts[i].sk = sk}

\* C27 as the code has it: both helpers consult the Learning Store first and on a
\* hit return the entry with no external call and no write.  On a miss
\* learn_pincode calls the geocoder once; learn_pincode_location calls the
\* directory once and, when the directory answered, the geocoder once as well.  A
\* successful answer is returned and put once per entry if the store is available
\* (LOCATION, and COORDS when the geocoder answered); on failure of the first
\* service nothing is returned and nothing is written.
C27_StoreFirstThenBestEffort ==
    PincodeHelperCalled =>
        /\ Cardinality(PutsOf("COORDS")) <= 1 /\ Cardinality(PutsOf("LOCATION")) <= 1
        /\ learn.after.coords = (learn.before.coords \/ PutsOf("COORDS") # {})
        /\ learn.after.location = (learn.before.location \/ PutsOf("LOCATION") # {})
        /\ ~learn.before.up => learn.puts = <<>>
        /\ IF HeldEntry
           THEN /\ learn.returned
                /\ learn.directory + learn.geocoder = 0
                /\ learn.puts = <<>> /\ learn.after = learn.before
           ELSE IF learn.fn = "learn_pincode"
           THEN /\ learn.directory = 0 /\ learn.geocoder = 1
                /\ IF learn.returned
                   THEN learn.before.up => learn.puts = <<SavedItem("COORDS")>>
                   ELSE learn.puts = <<>> /\ learn.after = learn.before
           ELSE /\ learn.directory = 1
                /\ IF learn.returned
                   THEN /\ learn.geocoder = 1
                        /\ learn.before.up =>
                            learn.puts \in {<<SavedItem("LOCATION")>>,
                                            <<SavedItem("LOCATION"), SavedItem("COORDS")>>}
                   ELSE /\ learn.geocoder = 0
                        /\ learn.puts = <<>> /\ learn.after = learn.before

\* learn_pincode_location missed the store, the directory and the geocoder both
\* answered: two external calls and two entries put.
C27_Witness ==
    /\ PincodeHelperCalled
    /\ learn.fn = "learn_pincode_location"
    /\ ~HeldEntry /\ learn.before.up
    /\ learn.returned
    /\ learn.directory = 1 /\ learn.geocoder = 1
    /\ learn.puts = <<SavedItem("LOCATION"), SavedItem("COORDS")>>

\* C28: every entry written to a store carries a TTL: pincode coordinates, pincode
\* locations, soil profiles, weather observations and rate-limit records all have a
\* ttl attribute, and a rate-limit record's ttl is at least
\* window_start + window_seconds + 300 s.
C28_EveryEntryHasTtl ==
    /\ learn # NoneVal =>
        \A i \in DOMAIN learn.puts : "ttl" \in DOMAIN learn.puts[i]
    /\ \A r \in writes :
        /\ "ttl" \in DOMAIN r
        /\ r.ttl >= r.window_start + WindowSeconds + TtlBuffer

\* A voice-pipeline request has been answered.
PipelineAnswered == voice.pos = "idle" /\ voice.before # NoneVal /\ voice.http # NoneVal

\* The count of a key as a call at time t takes it: the stored count while the
\* stored window is the current one, zero otherwise.
CountAt(item, t) ==
    IF item # NoneVal /\ InWindow(t, item.window_start) THEN item.request_count ELSE 0

\* C29: rate-limit accounting of the full voice pipeline is all-or-nothing: a
\* request that is rejected as rate-limited leaves both the session's asr counter
\* and its tts counter unchanged, and an accepted request increments each of them
\* by exactly one.
C29_PipelineAllOrNothing ==
    PipelineAnswered =>
        IF voice.http.statusCode = 429
        THEN voice.asr = voice.before.asr /\ voice.tts = voice.before.tts
        ELSE /\ voice.asr # NoneVal /\ voice.tts # NoneVal
             /\ voice.asr.request_count = CountAt(voice.before.asr, voice.before.asr_time) + 1
             /\ voice.tts.request_count = CountAt(voice.before.tts, voice.before.tts_time) + 1

\* A second request for the unknown pincode is under way against a store that holds
\* the pincode's LOCATION entry but no COORDS entry, with the geocoder available.
SecondResolutionDue ==
    /\ previous # NoneVal
    /\ pc \in {"start", "soil", "weather"}
    /\ store.up /\ store.location /\ ~store.coords
    /\ ext.geocoder

==============================================================================
